---- MODULE Spec2Model ----
(***************************************************************************)
(* Qubit routing as a binary program: the model builders                   *)
(* BIPMappingModel (bip_model.py) and MIPMappingModel (mip_model.py), the  *)
(* time-window heuristic and the solve driver.                             *)
(*                                                                         *)
(* The external optimizer is modelled by what its interface promises: it   *)
(* assigns 0/1 values to the variables of a model, within their bounds,    *)
(* so that every constraint the builder added holds, or it reports a       *)
(* failure.  Its search assigns one time step after the other.             *)
(***************************************************************************)
EXTENDS Integers, Sequences, FiniteSets, TLC

(***************************************************************************)
(* Bounds of the model.                                                    *)
(***************************************************************************)
MaxLayers == 6          \* layers of two-qubit gates of the input circuit
MaxDummy == 2           \* dummy_timesteps
MaxSplits == 3          \* requested num_splits
MaxArcSteps == 28       \* directed couplings times time steps of an instance
MaxDummyTotal == 3      \* dummy steps of a schedule
DoubledLayers == 4      \* layers of the circuit that repeats each gate

NoneVal == "None"
Bit == {0, 1}

(***************************************************************************)
(* Inputs: coupling maps (directed edge lists as the caller gives them),   *)
(* layers of two-qubit gates, solver parameters.                           *)
(***************************************************************************)
Line3 == [size |-> 3, edges |-> {<<0, 1>>, <<1, 2>>}]
Triangle3 == [size |-> 3, edges |-> {<<0, 1>>, <<1, 2>>, <<2, 0>>}]
\* a line of four qubits, of which the caller selects three
Line4 == [size |-> 4, edges |-> {<<0, 1>>, <<1, 2>>, <<2, 3>>}]
\* four qubits, the last three of them a triangle
Kite4 == [size |-> 4, edges |-> {<<0, 1>>, <<1, 2>>, <<2, 3>>, <<3, 1>>}]
\* three qubits, one of them coupled to no other
Split3 == [size |-> 3, edges |-> {<<0, 1>>}]
\* four qubits, the qubits 0, 2, 3 each coupled to qubit 1 only
Star4 == [size |-> 4, edges |-> {<<0, 1>>, <<1, 2>>, <<1, 3>>}]
CouplingMaps == {Line3, Triangle3, Line4, Kite4, Split3, Star4}

\* qubit_subset: the physical qubits to use, in the order of their reduced
\* indices (the empty list where the builder takes no such argument)
QubitSubsets == {<<>>, <<0, 1, 2>>, <<1, 2, 3>>, <<0, 1, 3>>, <<0, 1, 2, 3>>}

\* the pairs (coupling_map, qubit_subset) BIPMappingModel is constructed
\* with: a line of three qubits numbered as the caller numbers them, a
\* triangle of three qubits numbered otherwise, a selection that is not
\* connected, a selection of four qubits for a circuit of three
BIPDevices ==
    {[coupling |-> Line4, qubit_subset |-> <<0, 1, 2>>],
     [coupling |-> Kite4, qubit_subset |-> <<1, 2, 3>>],
     [coupling |-> Line4, qubit_subset |-> <<0, 1, 3>>],
     [coupling |-> Line4, qubit_subset |-> <<0, 1, 2, 3>>],
     [coupling |-> Star4, qubit_subset |-> <<0, 1, 2, 3>>]}

\* the coupling maps MIPMappingModel is constructed with
MIPDevices ==
    {[coupling |-> cm, qubit_subset |-> <<>>] : cm \in {Line3, Triangle3, Split3, Star4}}

\* a layer is a set of gates, a gate a pair (p, q) of logical qubits
\* gates (0,1), (1,2), (2,0), (0,1), ...: needs swaps on a line
Rotating(n) == [k \in 1..n |-> {<<(k - 1) % 3, k % 3>>}]
\* gates (0,1), (1,2), (0,1), ...: needs no swap
Alternating(n) == [k \in 1..n |-> IF k % 2 = 1 THEN {<<0, 1>>} ELSE {<<1, 2>>}]
\* gates (0,1), (0,1), (1,2), (1,2), (0,1), ...: needs no swap, and its first
\* two layers do not tell which of the two qubits the third layer needs
Doubled(n) == [k \in 1..n |-> IF ((k - 1) \div 2) % 2 = 0 THEN {<<0, 1>>} ELSE {<<1, 2>>}]
\* circuits of four qubits with two gates in one layer: the only layer, or
\* the second of two
TwoAtOnce == {<<{<<0, 1>>, <<2, 3>>}>>, <<{<<0, 1>>}, {<<0, 1>>, <<2, 3>>}>>}
Circuits == {Rotating(n) : n \in 1..MaxLayers} \cup {Alternating(n) : n \in 1..MaxLayers}
            \cup {Doubled(DoubledLayers)} \cup TwoAtOnce

\* the objective argument of create_cpx_problem
ObjectiveTags == {"depth", "error", "gate_error", "balanced"}
\* depth_obj_weight, in tenths (the default is 0.1)
DepthWeights == {0, 1}

TimeLimits == {100}
Builders == {"bip", "mip"}

Max(a, b) == IF a >= b THEN a ELSE b
Min(a, b) == IF a <= b THEN a ELSE b

\* the number of variables of the set S that f sets to 1: the sum of the
\* binary variables f[e], e in S
Ones(f, S) == Cardinality({e \in S : f[e] = 1})

(***************************************************************************)
(* Topology                                                                *)
(***************************************************************************)
\* CouplingMap.make_symmetric followed by get_edges: both directions
Arcs(cm) == cm.edges \cup {<<e[2], e[1]>> : e \in cm.edges}

PQubits(cm) == 0..(cm.size - 1)

Neighbors(cm, i) == {j \in PQubits(cm) : <<i, j>> \in Arcs(cm)}

\* _HardwareTopology.edges: every connection once, in the direction first met
\* when the nodes are scanned in increasing order
Edges(cm) ==
    {a \in Arcs(cm) :
        \/ a \in cm.edges /\ <<a[2], a[1]>> \notin cm.edges
        \/ a \in cm.edges /\ <<a[2], a[1]>> \in cm.edges /\ a[1] < a[2]}

RECURSIVE Within(_, _, _, _)
\* is j reachable from i in at most d hops
Within(cm, i, j, d) ==
    IF i = j THEN TRUE
    ELSE IF d = 0 THEN FALSE
    ELSE \E k \in Neighbors(cm, i) : Within(cm, k, j, d - 1)

\* CouplingMap.distance: length of a shortest path
Distance(cm, i, j) == CHOOSE d \in 0..cm.size : Within(cm, i, j, d) /\
                          (d = 0 \/ ~Within(cm, i, j, d - 1))

\* CouplingMap.reduce: the couplings among the qubits of the list, renamed
\* to their (0-based) positions in the list
Reduce(cm, subset) ==
    LET chosen == {subset[n] : n \in 1..Len(subset)}
        index(a) == (CHOOSE n \in 1..Len(subset) : subset[n] = a) - 1
    IN [size |-> Len(subset),
        edges |-> {<<index(e[1]), index(e[2])>> :
                      e \in {d \in cm.edges : d[1] \in chosen /\ d[2] \in chosen}}]

\* one connected component (directions ignored)
Connected(cm) == \A j \in PQubits(cm) : Within(cm, 0, j, cm.size)

\* the coupling map the builder works on: BIPMappingModel reduces the
\* caller's map to qubit_subset, MIPMappingModel takes the map as it is
Coupling(c) == IF c.builder = "bip" THEN Reduce(c.coupling, c.qubit_subset)
               ELSE c.coupling

(***************************************************************************)
(* Layered schedule.  A configuration c holds the constructor arguments    *)
(* (builder, coupling, su4layers, dummy_timesteps, num_splits) and the     *)
(* arguments of create_cpx_problem and solve_cpx_problem.  Schedules are   *)
(* sequences; time step t of the code is element t + 1.                    *)
(***************************************************************************)
\* [[]] * dummy_timesteps
DummySteps(d) == [k \in 1..d |-> {}]

\* variant: dummy steps after every layer, the last one included
GatesWithTrailingDummies(su4, d, k) ==
    [n \in 1..(k * (d + 1)) |->
        IF (n - 1) % (d + 1) = 0 THEN su4[((n - 1) \div (d + 1)) + 1] ELSE {}]

RECURSIVE GatesUpTo(_, _, _)
\* BIPMappingModel.__init__: the layers 1..k, dummy steps after each but the last
GatesUpTo(su4, d, k) ==
    IF k = 0 THEN <<>>
    ELSE GatesUpTo(su4, d, k - 1) \o <<su4[k]>> \o
         (IF k = Len(su4) THEN <<>> ELSE DummySteps(d))

\* _CircuitModel.__init__: real layers at the multiples of dummy_timesteps + 1
CircuitModelGates(su4, d) ==
    [n \in 1..(1 + (Len(su4) - 1) * (1 + d)) |->
        IF (n - 1) % (d + 1) = 0 THEN su4[((n - 1) \div (d + 1)) + 1] ELSE {}]

Gates(c) == IF c.builder = "bip"
            THEN GatesUpTo(c.su4layers, c.dummy_timesteps, Len(c.su4layers))
            ELSE CircuitModelGates(c.su4layers, c.dummy_timesteps)

\* variant: the requested count is not capped by the number of layers
NumSplitsAsRequested(c) ==
    IF c.num_splits = 0 THEN 1
    ELSE IF c.num_splits = -1 THEN Max(1, (Len(c.su4layers) - 2) \div 2)
    ELSE c.num_splits

\* the adjusted value of _num_splits
NumSplits(c) ==
    LET L == Len(c.su4layers)
        n1 == IF c.num_splits = 0 THEN 1
              ELSE IF c.num_splits = -1 THEN Max(1, (L - 2) \div 2)
              ELSE c.num_splits
    IN IF n1 > 1 THEN Min(n1, Max(1, L - 2)) ELSE n1

SplitSize(c) == Max(1, Max(1, Len(c.su4layers) - 2) \div NumSplits(c))

RECURSIVE HeurGatesShortOfSplit(_, _, _)
\* variant: no dummy steps between the last two layers of the window's prefix
HeurGatesShortOfSplit(c, i, k) ==
    IF k = 0 THEN <<>>
    ELSE HeurGatesShortOfSplit(c, i, k - 1) \o <<c.su4layers[k]>> \o
         (IF k - 1 < SplitSize(c) * (i + 1) - 1 THEN DummySteps(c.dummy_timesteps)
          ELSE <<>>)

RECURSIVE HeurGatesUpTo(_, _, _)
\* heur_gates[i] after the layers 1..k: dummy steps only after the layers
\* whose 0-based index is below split_size * (i + 1)
HeurGatesUpTo(c, i, k) ==
    IF k = 0 THEN <<>>
    ELSE HeurGatesUpTo(c, i, k - 1) \o <<c.su4layers[k]>> \o
         (IF k - 1 < SplitSize(c) * (i + 1) THEN DummySteps(c.dummy_timesteps)
          ELSE <<>>)

HeurGates(c, i) == HeurGatesUpTo(c, i, Len(c.su4layers))

\* variant: the length reached before layer split_size * (i + 1) is added
HeurLastLayerBeforeSplit(c, i) ==
    IF SplitSize(c) * (i + 1) + 1 <= Len(c.su4layers)
    THEN Len(HeurGatesUpTo(c, i, SplitSize(c) * (i + 1)))
    ELSE 0

\* heur_last_layer[i]: the length reached when layer split_size * (i + 1) is added
HeurLastLayer(c, i) ==
    IF SplitSize(c) * (i + 1) + 1 <= Len(c.su4layers)
    THEN Len(HeurGatesUpTo(c, i, SplitSize(c) * (i + 1) + 1))
    ELSE 0

\* _long_arcs: pairs of distinct qubits within dummy_timesteps hops
LongArcs(c) ==
    {a \in PQubits(Coupling(c)) \X PQubits(Coupling(c)) :
        a[1] # a[2] /\ Distance(Coupling(c), a[1], a[2]) <= c.dummy_timesteps}

(***************************************************************************)
(* The attributes __init__ leaves on the model object.  Element k + 1 of   *)
(* heur_gates and heur_last_layer belongs to window k.                     *)
(***************************************************************************)
Construct(c) ==
    [builder |-> c.builder,
     num_qubits |-> Coupling(c).size,
     qubits |-> PQubits(Coupling(c)),
     arcs |-> Arcs(Coupling(c)),
     edges |-> Edges(Coupling(c)),
     neighbors |-> [i \in PQubits(Coupling(c)) |-> Neighbors(Coupling(c), i)],
     global_qubit |-> c.qubit_subset,
     gates |-> Gates(c),
     depth |-> Len(Gates(c)),
     num_splits |-> NumSplits(c),
     heur_gates |-> [i \in 1..(NumSplits(c) - 1) |-> HeurGates(c, i - 1)],
     heur_last_layer |-> [i \in 1..(NumSplits(c) - 1) |-> HeurLastLayer(c, i - 1)],
     long_neighbors |->
         [i \in PQubits(Coupling(c)) |->
             IF NumSplits(c) > 1
             THEN {j \in PQubits(Coupling(c)) : <<i, j>> \in LongArcs(c)}
             ELSE {}]]

\* _is_dummy_step: always asked of the exact schedule self.gates
IsDummyStep(o, t) == o.gates[t + 1] = {}

(***************************************************************************)
(* The problems create_cpx_problem builds: heur_problem[0 .. S-2] and      *)
(* problem, here problems 0 .. S-1 with the exact one last.  A problem is  *)
(* described by its schedule and by `last`, the step from which on         *)
(* movement follows the long arcs (the depth, for the exact problem,       *)
(* which has exact movement throughout).                                   *)
(***************************************************************************)
ExactIndex(o) == o.num_splits - 1

Problem(o, k) ==
    IF k = ExactIndex(o)
    THEN [gates |-> o.gates, depth |-> o.depth, last |-> o.depth]
    ELSE [gates |-> o.heur_gates[k + 1], depth |-> Len(o.heur_gates[k + 1]),
          last |-> o.heur_last_layer[k + 1]]

\* the physical qubits j # i that x[t, q, i, j] is defined for
XNeighbors(o, m, t, i) ==
    IF t < m.last - 1 THEN o.neighbors[i] ELSE o.long_neighbors[i]

\* the keys j of x[t, q, i, .]: i itself (stay) and the qubits to move to
XTargets(o, m, t, i) == {i} \cup XNeighbors(o, m, t, i)

\* z[t] exists for the dummy steps (of the exact schedule) below `last`;
\* the flat builder has a w^d variable for every step
HasZ(o, m, t) == IF o.builder = "mip" THEN TRUE
                 ELSE t < m.last /\ IsDummyStep(o, t)

(***************************************************************************)
(* Decision variables.  An assignment a gives values to the variables of   *)
(* the steps assigned so far:                                              *)
(*   a.w[t+1][q][j]               w[t, q, j]                               *)
(*   a.y[t+1][<<p,q>>][<<i,j>>]   y[t, p, q, i, j]                         *)
(*   a.x[t+1][<<q,i>>][j]         x[t, q, i, j]                            *)
(*   a.z[t+1]                     z[t]  (NoneVal where the step has no z)  *)
(***************************************************************************)
W(a, t, q, j) == a.w[t + 1][q][j]
Y(a, t, g, arc) == a.y[t + 1][g][arc]
X(a, t, q, i, j) == a.x[t + 1][<<q, i>>][j]
Z(a, t) == a.z[t + 1]

GatesAt(m, t) == m.gates[t + 1]

\* q_no_gate: the logical qubits of no gate of step t
QNoGate(o, m, t) ==
    {q \in o.qubits : \A g \in GatesAt(m, t) : q # g[1] /\ q # g[2]}

(***************************************************************************)
(* Constraints of create_cpx_problem, one definition per family, each at   *)
(* one time step t.  The exact problem and the window problems share them: *)
(* the window code is the exact code with `depth - 1` replaced by          *)
(* heur_last_layer - 1 where the exact movement ends.  A sum of binary     *)
(* variables is the number of them that are 1.                             *)
(***************************************************************************)
\* assignment_vqubits_q_at_t, for one logical qubit: sum_j w[t, q, j] == 1
AssignmentVQubit(o, wq) == Ones(wq, o.qubits) = 1

AssignmentVQubits(o, a, t) ==
    \A q \in o.qubits : AssignmentVQubit(o, a.w[t + 1][q])

\* variant: the physical qubits are left unconstrained
AnyPQubits(o, a, t) == TRUE

\* assignment_pqubits_j_at_t: sum_q w[t, q, j] == 1
AssignmentPQubits(o, a, t) ==
    \A j \in o.qubits : Cardinality({q \in o.qubits : W(a, t, q, j) = 1}) = 1

\* variant: a gate is placed on at most one coupling
ImplementGateAtMostOnce(o, yg) == Ones(yg, o.arcs) <= 1

\* implement_gate_p_q_at_t, for one gate: sum_(i,j) y[t, p, q, i, j] == 1
ImplementGateOf(o, yg) == Ones(yg, o.arcs) = 1

ImplementGate(o, m, a, t) ==
    \A g \in GatesAt(m, t) : ImplementGateOf(o, a.y[t + 1][g])

\* McCormickLB: only the DOcplex builder states it
McCormickLB(o, m, a, t) ==
    o.builder = "bip" =>
        \A g \in GatesAt(m, t) : \A arc \in o.arcs :
            Y(a, t, g, arc) >= W(a, t, g[1], arc[1]) + W(a, t, g[2], arc[2]) - 1

\* variant: only McCormickUB1, the bound through the first qubit of the gate
McCormickUB1Only(o, m, a, t) ==
    \A g \in GatesAt(m, t) : \A arc \in o.arcs :
        Y(a, t, g, arc) <= X(a, t, g[1], arc[1], arc[1]) + X(a, t, g[1], arc[1], arc[2])

\* McCormickUB1/UB2 through the movement variables (steps with exact movement)
McCormickUBMove(o, m, a, t) ==
    \A g \in GatesAt(m, t) : \A arc \in o.arcs :
        /\ Y(a, t, g, arc) <= X(a, t, g[1], arc[1], arc[1]) + X(a, t, g[1], arc[1], arc[2])
        /\ Y(a, t, g, arc) <= X(a, t, g[2], arc[2], arc[1]) + X(a, t, g[2], arc[2], arc[2])

\* McCormickUB1/UB2 through w (last step; window steps from heur_last_layer - 1 on)
McCormickUBPlace(o, m, a, t) ==
    \A g \in GatesAt(m, t) : \A arc \in o.arcs :
        /\ Y(a, t, g, arc) <= W(a, t, g[1], arc[1])
        /\ Y(a, t, g, arc) <= W(a, t, g[2], arc[2])

\* which of the two upper bounds step t gets
UsesMoveBound(m, t) == t < m.last - 1

\* flow_out_q_i_at_t, for one q and i:
\* w[t, q, i] == x[t, q, i, i] + sum_j x[t, q, i, j]
FlowOutOf(o, m, wqi, xqi, t, i) ==
    wqi = xqi[i] + Ones(xqi, XNeighbors(o, m, t, i))

FlowOut(o, m, a, t) ==
    \A q \in o.qubits : \A i \in o.qubits :
        FlowOutOf(o, m, W(a, t, q, i), a.x[t + 1][<<q, i>>], t, i)

\* variant: no flow-in constraint
AnyFlowIn(o, m, wq, xt, t, q) == TRUE

\* flow_in_q_i_at_t (t >= 1), for one logical qubit:
\* w[t, q, i] == x[t-1, q, i, i] + sum_j x[t-1, q, j, i]
FlowInOf(o, m, wq, xt, t, q) ==
    \A i \in o.qubits :
        wq[i] = xt[<<q, i>>][i] +
                Cardinality({j \in XNeighbors(o, m, t - 1, i) : xt[<<q, j>>][i] = 1})

FlowIn(o, m, a, t) ==
    \A q \in o.qubits : FlowInOf(o, m, a.w[t + 1][q], a.x[t], t, q)

\* swap_p_q_i_j_at_t: x[t, p, i, j] == x[t, q, j, i]
SwapWithPartner(o, m, a, t) ==
    \A g \in GatesAt(m, t) : \A arc \in o.arcs :
        X(a, t, g[1], arc[1], arc[2]) = X(a, t, g[2], arc[2], arc[1])

\* variant: the qubits of no gate move freely
AnySwapNoGate(o, m, a, t) == TRUE

\* swap_no_gate_i_j_at_t: sum_q x[t, q, i, j] == sum_p x[t, p, j, i] over q_no_gate
SwapNoGate(o, m, a, t) ==
    \A arc \in o.arcs :
        Cardinality({q \in QNoGate(o, m, t) : X(a, t, q, arc[1], arc[2]) = 1})
        = Cardinality({p \in QNoGate(o, m, t) : X(a, t, p, arc[2], arc[1]) = 1})

\* dummy_ts_needed_for_vqubit_q_at_t: sum_(i,j) x[t, q, i, j] <= z[t]
DummyNeeded(o, m, a, t) ==
    \A q \in o.qubits :
        Cardinality({arc \in o.arcs : X(a, t, q, arc[1], arc[2]) = 1}) <= Z(a, t)

\* variant: dummy steps are used in any order
AnyDummyOrder(o, m, a, t) == TRUE

\* dummy_precedence_t: z[t] >= z[t + 1]
DummyPrecedence(o, m, a, t) == Z(a, t) >= Z(a, t + 1)

\* eu_def_t_i_j of the flat builder: the gates placed on the edge (either
\* direction) plus the unused qubits moving along it sum to the binary e^u
EuDef(o, m, a, t) ==
    \A e \in o.edges :
        Cardinality({g \in GatesAt(m, t) : Y(a, t, g, e) = 1})
        + Cardinality({g \in GatesAt(m, t) : Y(a, t, g, <<e[2], e[1]>>) = 1})
        + Cardinality({q \in QNoGate(o, m, t) : X(a, t, q, e[1], e[2]) = 1})
        \in Bit

(***************************************************************************)
(* The constraint system of problem m, grouped by the last variable each   *)
(* constraint reads: MoveConstraints(t) read x[t] (t < depth - 1),         *)
(* PlaceConstraints(t) read w[t], y[t], z[t] and at most x[t-1], z[t-1].   *)
(***************************************************************************)
\* variant: of the constraints on x[t], only the flow out of each qubit
FlowOutOnly(o, m, a, t) == FlowOut(o, m, a, t)

MoveConstraints(o, m, a, t) ==
    /\ FlowOut(o, m, a, t)
    /\ UsesMoveBound(m, t) => McCormickUBMove(o, m, a, t)
    /\ t < m.last - 1 => SwapWithPartner(o, m, a, t)
    /\ t < m.last - 1 => SwapNoGate(o, m, a, t)
    /\ (t < m.last /\ IsDummyStep(o, t)) => DummyNeeded(o, m, a, t)
    /\ o.builder = "mip" => EuDef(o, m, a, t)

PlaceConstraints(o, m, a, t) ==
    /\ AssignmentVQubits(o, a, t)
    /\ AssignmentPQubits(o, a, t)
    /\ ImplementGate(o, m, a, t)
    /\ McCormickLB(o, m, a, t)
    /\ ~UsesMoveBound(m, t) => McCormickUBPlace(o, m, a, t)
    /\ t >= 1 => FlowIn(o, m, a, t)
    /\ (t >= 1 /\ t - 1 < m.last - 1 /\ IsDummyStep(o, t - 1) /\ IsDummyStep(o, t))
           => DummyPrecedence(o, m, a, t - 1)

\* a complete assignment is feasible when every constraint holds
Feasible(o, m, a) ==
    \A t \in 0..(m.depth - 1) :
        /\ PlaceConstraints(o, m, a, t)
        /\ t < m.depth - 1 => MoveConstraints(o, m, a, t)

(***************************************************************************)
(* Objective functions.  The depth objective is counted in hundredths:     *)
(* a used dummy step costs 1, a movement variable 0.01.                    *)
(***************************************************************************)
\* the coefficient of z[t] in the depth objective, in hundredths
DummyStepCost == 100
\* the coefficient 0.01 of x[t, q, i, j] in the depth objective, in hundredths
MoveCost == 1

\* the dummy steps below `last` whose z is 1
UsedDummySteps(o, m, a) ==
    {t \in 0..(m.last - 1) : IsDummyStep(o, t) /\ Z(a, t) = 1}

\* the movement variables x[t, q, i, j], (i, j) a coupling, t < last - 1,
\* that are 1
MovesSet(o, m, a) ==
    {k \in (0..(m.last - 2)) \X o.qubits \X o.arcs :
        X(a, k[1], k[2], k[3][1], k[3][2]) = 1}

\* variant: the depth objective without the penalty on movement
DepthObjectiveOfDummySteps(o, m, a) ==
    DummyStepCost * Cardinality(UsedDummySteps(o, m, a))

\* objective "depth" of BIPMappingModel: sum of z[t] over the dummy steps
\* plus 0.01 for every movement variable
DepthObjective(o, m, a) ==
    DummyStepCost * Cardinality(UsedDummySteps(o, m, a))
    + MoveCost * Cardinality(MovesSet(o, m, a))

\* set_depth_obj of MIPMappingModel: the sum of w^d over all steps
MipDepthObjective(o, m, a) ==
    DummyStepCost * Cardinality({t \in 0..(m.depth - 1) : Z(a, t) = 1})

\* the value of objective "depth" of problem m at assignment a
DepthValue(o, m, a) ==
    IF o.builder = "mip" THEN MipDepthObjective(o, m, a) ELSE DepthObjective(o, m, a)

(***************************************************************************)
(* Variable bounds.  The bounds of a problem are two assignments lb, ub    *)
(* over a prefix of the time steps; a variable outside the prefix has the  *)
(* bounds it was created with (0 and 1; the flat builder raises the lower  *)
(* bound of w^d to 1 at the real layers).                                  *)
(***************************************************************************)
EmptyAssignment == [w |-> <<>>, y |-> <<>>, x |-> <<>>, z |-> <<>>]

DefaultBounds == [lb |-> EmptyAssignment, ub |-> EmptyAssignment]

WInBounds(b, t, q, wq) ==
    /\ t < Len(b.lb.w) => \A j \in DOMAIN wq : wq[j] >= b.lb.w[t + 1][q][j]
    /\ t < Len(b.ub.w) => \A j \in DOMAIN wq : wq[j] <= b.ub.w[t + 1][q][j]

YInBounds(b, t, g, yg) ==
    /\ t < Len(b.lb.y) => \A arc \in DOMAIN yg : yg[arc] >= b.lb.y[t + 1][g][arc]
    /\ t < Len(b.ub.y) => \A arc \in DOMAIN yg : yg[arc] <= b.ub.y[t + 1][g][arc]

XInBounds(b, t, q, i, xqi) ==
    /\ t < Len(b.lb.x) => \A j \in DOMAIN xqi : xqi[j] >= b.lb.x[t + 1][<<q, i>>][j]
    /\ t < Len(b.ub.x) => \A j \in DOMAIN xqi : xqi[j] <= b.ub.x[t + 1][<<q, i>>][j]

\* asked only of steps that have a z variable
ZInBounds(o, b, t, zt) ==
    /\ IF t < Len(b.lb.z) THEN zt >= b.lb.z[t + 1]
       ELSE (o.builder = "mip" /\ ~IsDummyStep(o, t)) => zt >= 1
    /\ t < Len(b.ub.z) => zt <= b.ub.z[t + 1]

(***************************************************************************)
(* State                                                                   *)
(***************************************************************************)
VARIABLES
    cfg,            \* the arguments the model object is constructed and run with
    obj,            \* the attributes __init__ computed (see Construct)
    pc,             \* "init", "created", "solving", "returned", "raised"
    split,          \* index of the problem being solved (ExactIndex: self.problem)
    solver,         \* the external solver: "idle", "running", "failed"
    asg,            \* the solver's assignment of the current problem, so far
    bounds,         \* bounds[k + 1]: the variable bounds of problem k
    params,         \* params[k + 1]: time limit, threads, seed set on problem k
    heur_solution,  \* the solutions of the window problems solved so far
    solution,       \* self.solution
    status,         \* the status string solve_cpx_problem returned
    error,          \* the exception a method raised
    solve_log,      \* the problems handed to the solver, in order
    problems        \* problems[k + 1]: is problem k built, has it an objective

vars == <<cfg, obj, pc, split, solver, asg, bounds, params, heur_solution, solution,
          status, error, solve_log, problems>>

\* The runs of the model.  The automatic and the disabled split count are
\* run without dummy steps, the gate_error and balanced objectives on the
\* Doubled circuit, the circuits of four qubits on the star of four
\* qubits; a schedule has at most MaxDummyTotal dummy steps and at
\* most MaxArcSteps couplings times time steps.
Configs ==
    {c \in [builder : Builders, coupling : CouplingMaps, qubit_subset : QubitSubsets,
            num_vqubits : {3, 4}, su4layers : Circuits,
            dummy_timesteps : 0..MaxDummy, num_splits : (-2)..MaxSplits,
            objective : ObjectiveTags, depth_obj_weight : DepthWeights,
            time_limit : TimeLimits, threads : {NoneVal}] :
        /\ [coupling |-> c.coupling, qubit_subset |-> c.qubit_subset]
               \in (IF c.builder = "bip" THEN BIPDevices ELSE MIPDevices)
        /\ c.num_vqubits = 4 <=> c.su4layers \in TwoAtOnce
        /\ c.num_vqubits = 4 <=> c.coupling = Star4
        /\ c.coupling = Star4 => c.num_splits = 1 /\ c.objective = "depth"
        /\ c.builder = "mip" => c.num_splits = 1
        /\ c.objective # "balanced" => c.depth_obj_weight = 1
        /\ c.num_splits <= 0 => c.dummy_timesteps = 0
        /\ c.objective \in {"gate_error", "balanced"} =>
               c.su4layers = Doubled(DoubledLayers)
        /\ (Len(c.su4layers) - 1) * c.dummy_timesteps <= MaxDummyTotal
        /\ Cardinality(Arcs(Coupling(c)))
               * (1 + (Len(c.su4layers) - 1) * (1 + c.dummy_timesteps)) <= MaxArcSteps}

NoError == [type |-> NoneVal, message |-> NoneVal]

\* what BIPMappingModel.__init__ raises, in the order of its checks;
\* MIPMappingModel.__init__ checks nothing
ConstructionError(c) ==
    IF c.builder = "mip" THEN NoError
    ELSE IF ~Connected(Reduce(c.coupling, c.qubit_subset))
    THEN [type |-> "TranspilerError",
          message |-> "The 'coupling_map' reduced by 'qubit_subset' must be connected."]
    ELSE IF c.num_splits < -1
    THEN [type |-> "ValueError", message |-> "Invalid number of splits"]
    ELSE IF c.num_vqubits # Coupling(c).size
    THEN [type |-> "TranspilerError",
          message |-> "BIPMappingModel assumes the same size of virtual and physical qubits."]
    ELSE NoError

\* no model object: the constructor raised
NoObject == [builder |-> NoneVal]

\* self.problem and heur_problem[k] before create_cpx_problem
NotBuilt == [built |-> FALSE, minimized |-> FALSE]

Init ==
    /\ cfg \in Configs
    /\ obj = IF ConstructionError(cfg) = NoError THEN Construct(cfg) ELSE NoObject
    /\ pc = IF ConstructionError(cfg) = NoError THEN "init" ELSE "raised"
    /\ split = 0
    /\ solver = "idle"
    /\ asg = EmptyAssignment
    /\ bounds = <<>>
    /\ params = <<>>
    /\ heur_solution = <<>>
    /\ solution = NoneVal
    /\ status = NoneVal
    /\ error = ConstructionError(cfg)
    /\ solve_log = <<>>
    /\ problems = IF ConstructionError(cfg) = NoError
                  THEN [k \in 1..NumSplits(cfg) |-> NotBuilt] ELSE <<>>

(***************************************************************************)
(* create_cpx_problem: builds self.problem and, with S > 1, the S - 1      *)
(* window problems; every variable starts with its default bounds.         *)
(***************************************************************************)
\* the objective tags each builder knows
KnownObjectives(builder) ==
    IF builder = "bip" THEN {"depth", "gate_error", "balanced"} ELSE {"error", "depth"}

UnknownObjective == [type |-> "TranspilerError", message |-> "Unknown objective type"]

\* the physical qubits j # i whose x[t, q, i, j] the objective expression of
\* window problem m reads: the couplings below heur_last_layer - 1 for
\* "depth"; the couplings below heur_last_layer and the long arcs from
\* there on for "gate_error" and "balanced"
ObjectiveMoves(c, o, m, t, i) ==
    IF c.objective = "depth"
    THEN IF t < m.last - 1 THEN o.neighbors[i] ELSE {}
    ELSE IF t < m.last THEN o.neighbors[i] ELSE o.long_neighbors[i]

\* the objective of a window reads x[t, q, i, j] of every coupling (i, j) at
\* t = heur_last_layer - 1, where x exists for the long arcs only
WindowObjectiveKeyError(c, o) ==
    /\ c.objective \in {"gate_error", "balanced"}
    /\ \E a \in o.arcs : a[2] \notin o.long_neighbors[a[1]]

\* does the builder call minimize() on problem k (the exact problem is
\* k = ExactIndex): in a window the call for gate_error is missing
Minimizes(c, o, k) ==
    IF k = ExactIndex(o) THEN TRUE ELSE c.objective \in {"depth", "balanced"}

\* the function problem k is told to minimize: the expression the branch of
\* `objective` builds ("depth": z[t] and 0.01 x; "error": the gate and swap
\* error costs) and the weight, in tenths, of the sum of z[t] added to the
\* error expression; no expression where minimize() is not called
ObjectiveOf(c, o, k) ==
    IF ~Minimizes(c, o, k) THEN [expression |-> NoneVal, depth_weight |-> 0]
    ELSE IF c.objective = "depth" THEN [expression |-> "depth", depth_weight |-> 0]
    ELSE [expression |-> "error",
          depth_weight |-> IF c.objective = "balanced" THEN c.depth_obj_weight ELSE 0]

\* what create_cpx_problem raises
CreateError(c, o) ==
    IF c.objective \notin KnownObjectives(c.builder) THEN UnknownObjective
    ELSE IF c.builder = "mip" /\ c.objective = "error"
    THEN [type |-> "KeyError", message |-> "gate_fidelity"]
    ELSE IF c.builder = "bip" /\ o.num_splits > 1 /\ WindowObjectiveKeyError(c, o)
    THEN [type |-> "KeyError", message |-> "x"]
    ELSE NoError

\* the problems stored when create_cpx_problem ends: BIPMappingModel
\* stores self.problem after its objective is set and then builds the
\* windows in order; MIPMappingModel stores it before the objective is set
ProblemsCreated(c, o) ==
    [n \in 1..o.num_splits |->
        IF CreateError(c, o) = NoError
        THEN [built |-> TRUE, minimized |-> Minimizes(c, o, n - 1)]
        ELSE IF n - 1 # ExactIndex(o) THEN NotBuilt
        ELSE IF c.builder = "mip" THEN [built |-> TRUE, minimized |-> FALSE]
        ELSE IF CreateError(c, o) = UnknownObjective THEN NotBuilt
        ELSE [built |-> TRUE, minimized |-> TRUE]]

create_cpx_problem ==
    /\ pc = "init"
    /\ problems' = ProblemsCreated(cfg, obj)
    /\ error' = CreateError(cfg, obj)
    /\ IF CreateError(cfg, obj) = NoError
       THEN /\ pc' = "created"
            /\ bounds' = [k \in 1..obj.num_splits |-> DefaultBounds]
            /\ params' = [k \in 1..obj.num_splits |-> NoneVal]
       ELSE /\ pc' = "raised"
            /\ UNCHANGED <<bounds, params>>
    /\ UNCHANGED <<cfg, obj, split, solver, asg, heur_solution, solution, status,
                   solve_log>>

(***************************************************************************)
(* The external solver on problem `split`: one step assigns x[t-1], w[t],  *)
(* y[t], z[t] for the next time step t, any values within the bounds that  *)
(* satisfy the constraints reading them.  The candidate sets only leave    *)
(* out values that a constraint of one variable row already excludes.      *)
(***************************************************************************)
RECURSIVE Product(_, _)
\* the functions f on keys with f[k] in cells[k] for every key k
Product(cells, keys) ==
    IF keys = {} THEN {<<>>}
    ELSE LET k == CHOOSE k \in keys : TRUE
             rest == Product(cells, keys \ {k})
         IN {(k :> v) @@ r : v \in cells[k], r \in rest}

XCells(o, m, b, a, t, q, i) ==
    {f \in [XTargets(o, m, t, i) -> Bit] :
        FlowOutOf(o, m, W(a, t, q, i), f, t, i) /\ XInBounds(b, t, q, i, f)}

XCandidates(o, m, b, a, t) ==
    Product([k \in o.qubits \X o.qubits |-> XCells(o, m, b, a, t, k[1], k[2])],
            o.qubits \X o.qubits)

WRows(o, m, b, a, t, q) ==
    {f \in [o.qubits -> Bit] :
        /\ AssignmentVQubit(o, f)
        /\ WInBounds(b, t, q, f)
        /\ t >= 1 => FlowInOf(o, m, f, a.x[t], t, q)}

WCandidates(o, m, b, a, t) ==
    Product([q \in o.qubits |-> WRows(o, m, b, a, t, q)], o.qubits)

YRows(o, m, b, t, g) ==
    {f \in [o.arcs -> Bit] : ImplementGateOf(o, f) /\ YInBounds(b, t, g, f)}

YCandidates(o, m, b, t) ==
    Product([g \in GatesAt(m, t) |-> YRows(o, m, b, t, g)], GatesAt(m, t))

ZCandidates(o, m, b, t) ==
    IF HasZ(o, m, t) THEN {v \in Bit : ZInBounds(o, b, t, v)} ELSE {NoneVal}

Complete(o, k, a) == Len(a.w) = Problem(o, k).depth

SolverStep ==
    /\ pc = "solving" /\ solver = "running"
    /\ ~Complete(obj, split, asg)
    /\ LET m == Problem(obj, split)
           b == bounds[split + 1]
           t == Len(asg.w)
       IN \E xs \in IF t = 0 THEN {NoneVal} ELSE XCandidates(obj, m, b, asg, t - 1) :
            LET a1 == IF t = 0 THEN asg ELSE [asg EXCEPT !.x = Append(@, xs)]
            IN /\ t >= 1 => MoveConstraints(obj, m, a1, t - 1)
               /\ \E ws \in WCandidates(obj, m, b, a1, t) :
                  \E ys \in YCandidates(obj, m, b, t) :
                  \E zs \in ZCandidates(obj, m, b, t) :
                    LET a2 == [a1 EXCEPT !.w = Append(@, ws), !.y = Append(@, ys),
                                         !.z = Append(@, zs)]
                    IN /\ PlaceConstraints(obj, m, a2, t)
                       /\ asg' = a2
    /\ UNCHANGED <<cfg, obj, problems, pc, split, solver, bounds, params, heur_solution,
                   solution, status, error, solve_log>>

\* the solver ends without a solution (infeasible, error, out of time)
SolverFail ==
    /\ pc = "solving" /\ solver = "running"
    /\ asg = EmptyAssignment
    /\ solver' = "failed"
    /\ UNCHANGED <<cfg, obj, problems, pc, split, asg, bounds, params, heur_solution, solution,
                   status, error, solve_log>>

(***************************************************************************)
(* solve_cpx_problem of BIPMappingModel.  A time limit is a fraction       *)
(* <<numerator, denominator>>: time_limit * shares / (S * (S + 1) / 2).    *)
(***************************************************************************)
RandomSeed == 777

SolvedStatus == "integer optimal solution"
FailedStatus == "integer infeasible"

(***************************************************************************)
(* Python floats.  A natural number is a sequence of limbs of LimbBits     *)
(* bits, least significant first, without leading zero limbs; a float is   *)
(* [m, e] with m a natural of exactly MantissaBits bits, of value m * 2^e. *)
(* Conversion, division and addition round to nearest, ties to even, as    *)
(* IEEE 754 binary64 does.                                                 *)
(***************************************************************************)
MantissaBits == 53

RECURSIVE Power2(_)
Power2(n) == IF n = 0 THEN 1 ELSE 2 * Power2(n - 1)

LimbBits == 9
Limb == Power2(LimbBits)

Zeros(n) == [k \in 1..n |-> 0]

RECURSIVE LOf(_)
\* the natural of an integer n >= 0
LOf(n) == IF n = 0 THEN <<>> ELSE <<n % Limb>> \o LOf(n \div Limb)

RECURSIVE LAddC(_, _, _)
\* A + B + c
LAddC(A, B, c) ==
    IF A = <<>> /\ B = <<>> THEN LOf(c)
    ELSE LET a0 == IF A = <<>> THEN 0 ELSE Head(A)
             b0 == IF B = <<>> THEN 0 ELSE Head(B)
             AT == IF A = <<>> THEN <<>> ELSE Tail(A)
             BT == IF B = <<>> THEN <<>> ELSE Tail(B)
         IN <<(a0 + b0 + c) % Limb>> \o LAddC(AT, BT, (a0 + b0 + c) \div Limb)

LAdd(A, B) == LAddC(A, B, 0)

RECURSIVE LMulC(_, _, _)
\* A * k + c for a small integer k
LMulC(A, k, c) ==
    IF A = <<>> THEN LOf(c)
    ELSE <<(Head(A) * k + c) % Limb>> \o LMulC(Tail(A), k, (Head(A) * k + c) \div Limb)

RECURSIVE SmallBitLen(_)
SmallBitLen(n) == IF n = 0 THEN 0 ELSE 1 + SmallBitLen(n \div 2)

\* the number of bits of A
BitLen(A) == IF A = <<>> THEN 0
             ELSE LimbBits * (Len(A) - 1) + SmallBitLen(A[Len(A)])

\* A * 2^n
ShiftLeft(A, n) ==
    IF A = <<>> THEN <<>>
    ELSE Zeros(n \div LimbBits) \o LMulC(A, Power2(n % LimbBits), 0)

\* A \div 2^n
ShiftRight(A, n) ==
    LET kept == SubSeq(A, n \div LimbBits + 1, Len(A))
        r == Power2(n % LimbBits)
        q == [k \in 1..Len(kept) |->
                 kept[k] \div r
                 + (IF k < Len(kept) THEN (kept[k + 1] % r) * (Limb \div r) ELSE 0)]
    IN IF q # <<>> /\ q[Len(q)] = 0 THEN SubSeq(q, 1, Len(q) - 1) ELSE q

\* the float nearest to (N + f) * 2^e, ties to even; N a natural and f a
\* fraction below 1 that is not 0 exactly when `inexact`
RoundNat(N, e, inexact) ==
    IF BitLen(N) <= MantissaBits
    THEN [m |-> ShiftLeft(N, MantissaBits - BitLen(N)),
          e |-> e - (MantissaBits - BitLen(N))]
    ELSE LET d == BitLen(N) - MantissaBits
             q == ShiftRight(N, d)
             g == ShiftRight(N, d - 1)
             sticky == inexact \/ N # ShiftLeft(g, d - 1)
             up == g[1] % 2 = 1 /\ (sticky \/ q[1] % 2 = 1)
             r == IF up THEN LAddC(q, <<>>, 1) ELSE q
         IN IF BitLen(r) > MantissaBits
            THEN [m |-> ShiftRight(r, 1), e |-> e + d + 1]
            ELSE [m |-> r, e |-> e + d]

\* float(n) of an integer n > 0
FloatOf(n) == RoundNat(LOf(n), 0, FALSE)

RECURSIVE Doublings(_, _)
\* how often b is doubled while it stays at most a
Doublings(a, b) == IF 2 * b <= a THEN 1 + Doublings(a, 2 * b) ELSE 0

RECURSIVE QuotientLimbs(_, _, _)
\* the next n limbs of the binary expansion of r / b (r < b), last limb first
QuotientLimbs(r, b, n) ==
    IF n = 0 THEN <<>>
    ELSE QuotientLimbs((r * Limb) % b, b, n - 1) \o <<(r * Limb) \div b>>

RECURSIVE QuotientRest(_, _, _)
\* what is left of r after n limbs of the expansion of r / b
QuotientRest(r, b, n) ==
    IF n = 0 THEN r ELSE QuotientRest((r * Limb) % b, b, n - 1)

\* a / b of two floats holding the integers a, b > 0: the quotient is
\* scaled into [1, 2), expanded to more bits than the mantissa holds, and
\* rounded
FloatDiv(a, b) ==
    LET up == IF a >= b THEN Doublings(a, b) ELSE 0
        down == IF a >= b THEN 0 ELSE Doublings(b - 1, a) + 1
        a1 == a * Power2(down)
        b1 == b * Power2(up)
        n == MantissaBits \div LimbBits + 1
    IN RoundNat(QuotientLimbs(a1 - b1, b1, n) \o <<1>>,
                up - down - n * LimbBits,
                QuotientRest(a1 - b1, b1, n) # 0)

TotalShares(o) == (o.num_splits * (o.num_splits + 1)) \div 2

\* variant: every problem gets one share
EqualShares(o, k) == 1

\* the shares of the time limit problem k is given: S - k for window k, 1 for
\* the exact problem
Shares(o, k) == IF k < ExactIndex(o) THEN o.num_splits - k ELSE 1

\* the limit of problem k:
\* time_limit * (num_splits - split) / (num_splits * (num_splits + 1) / 2)
TimeLimitFor(c, o, k) == FloatDiv(c.time_limit * Shares(o, k), TotalShares(o))

\* variant: the seed is set on the exact problem only, the windows run
\* with seed 0
ParamsSeedingLastOnly(c, o, k) ==
    [time_limit |-> TimeLimitFor(c, o, k),
     threads |-> c.threads,
     randomseed |-> IF k = ExactIndex(o) THEN RandomSeed ELSE 0]

\* set_time_limit, cplex_parameters.threads, cplex_parameters.randomseed
ParamsFor(c, o, k) ==
    [time_limit |-> TimeLimitFor(c, o, k),
     threads |-> c.threads,
     randomseed |-> RandomSeed]

\* the steps of window i whose w, y, z are fixed: range(heur_last_layer[i])
FixedSteps(o, i) == o.heur_last_layer[i + 1]

\* variant: x is fixed at as many steps as w
FixedMoveStepsAsPlaced(o, i) == o.heur_last_layer[i + 1]

\* the steps of window i whose x are fixed: t < heur_last_layer[i] - 1
FixedMoveSteps(o, i) == o.heur_last_layer[i + 1] - 1

\* the solution values of window i that the driver reads: those of the steps
\* below heur_last_layer (the rest of a window's solution is never used)
ReadBack(o, i, sol) ==
    [w |-> SubSeq(sol.w, 1, o.heur_last_layer[i + 1]),
     y |-> SubSeq(sol.y, 1, o.heur_last_layer[i + 1]),
     x |-> SubSeq(sol.x, 1, o.heur_last_layer[i + 1] - 1),
     z |-> SubSeq(sol.z, 1, o.heur_last_layer[i + 1])]

\* the values of window i copied into the next problem
FixedValues(o, i, sol) ==
    [w |-> [n \in 1..FixedSteps(o, i) |-> sol.w[n]],
     y |-> [n \in 1..FixedSteps(o, i) |-> sol.y[n]],
     x |-> [n \in 1..FixedMoveSteps(o, i) |-> sol.x[n]],
     z |-> [n \in 1..FixedSteps(o, i) |->
               IF IsDummyStep(o, n - 1) THEN sol.z[n] ELSE NoneVal]]

\* variant: the next problem keeps the bounds it was created with
UnfixedBounds(o, i, sol) == DefaultBounds

\* lb = val and ub = val for every fixed variable
FixedBounds(o, i, sol) ==
    [lb |-> FixedValues(o, i, sol), ub |-> FixedValues(o, i, sol)]

\* variant: the exact problem is solved first
LastProblemFirst(o) == o.num_splits - 1

\* the first problem solved: window 0 (range(num_splits - 1) starts at 0),
\* which is the exact problem when there is no window
FirstProblem(o) == 0

\* entry: parameters on the first problem, then its solve() is called
bip_solve_enter ==
    /\ pc = "created" /\ cfg.builder = "bip"
    /\ pc' = "solving"
    /\ split' = FirstProblem(obj)
    /\ params' = [params EXCEPT ![FirstProblem(obj) + 1] =
                                   ParamsFor(cfg, obj, FirstProblem(obj))]
    /\ solver' = "running"
    /\ asg' = EmptyAssignment
    /\ solve_log' = Append(solve_log, FirstProblem(obj))
    /\ UNCHANGED <<cfg, obj, problems, bounds, heur_solution, solution, status, error>>

\* window `split` solved: its values up to heur_last_layer are fixed in the
\* next problem, whose parameters are set and whose solve() is called
bip_window_solved ==
    /\ pc = "solving" /\ cfg.builder = "bip"
    /\ split < ExactIndex(obj)
    /\ solver = "running" /\ Complete(obj, split, asg)
    /\ heur_solution' = Append(heur_solution, ReadBack(obj, split, asg))
    /\ bounds' = [bounds EXCEPT ![split + 2] = FixedBounds(obj, split, asg)]
    /\ split' = split + 1
    /\ params' = [params EXCEPT ![split + 2] = ParamsFor(cfg, obj, split + 1)]
    /\ asg' = EmptyAssignment
    /\ solve_log' = Append(solve_log, split + 1)
    /\ UNCHANGED <<cfg, obj, problems, pc, solver, solution, status, error>>

\* window `split` has no solution: solve() returns, the status is logged,
\* and the first read of a solution_value raises docplex's error for a
\* model that did not solve; the error has docplex's text, not the status
bip_window_failed ==
    /\ pc = "solving" /\ cfg.builder = "bip"
    /\ split < ExactIndex(obj)
    /\ solver = "failed"
    /\ pc' = "raised"
    /\ error' = [type |-> "DOcplexException", message |-> "did not solve successfully"]
    /\ UNCHANGED <<cfg, obj, problems, split, solver, asg, bounds, params, heur_solution, solution,
                   status, solve_log>>

\* variant: a failed exact solve raises an error carrying the status
bip_exact_checked ==
    /\ pc = "solving" /\ cfg.builder = "bip"
    /\ split = ExactIndex(obj)
    /\ \/ solver = "running" /\ Complete(obj, split, asg) /\ solution' = asg
          /\ status' = SolvedStatus /\ pc' = "returned" /\ error' = error
       \/ solver = "failed" /\ solution' = NoneVal /\ status' = status
          /\ pc' = "raised"
          /\ error' = [type |-> "TranspilerError", message |-> FailedStatus]
    /\ UNCHANGED <<cfg, obj, problems, split, solver, asg, bounds, params, heur_solution, solve_log>>

\* the exact problem's solve() returned: self.solution is what solve()
\* returned (None without a solution); the status string is returned
\* whatever it says
bip_exact_returned ==
    /\ pc = "solving" /\ cfg.builder = "bip"
    /\ split = ExactIndex(obj)
    /\ \/ solver = "running" /\ Complete(obj, split, asg) /\ solution' = asg
          /\ status' = SolvedStatus
       \/ solver = "failed" /\ solution' = NoneVal /\ status' = FailedStatus
    /\ pc' = "returned"
    /\ UNCHANGED <<cfg, obj, problems, split, solver, asg, bounds, params, heur_solution, error,
                   solve_log>>

(***************************************************************************)
(* solve_cpx_problem of MIPMappingModel: one problem, the whole time       *)
(* limit; a solver error is raised as TranspilerError.                     *)
(***************************************************************************)
mip_solve_enter ==
    /\ pc = "created" /\ cfg.builder = "mip"
    /\ pc' = "solving"
    /\ split' = 0
    /\ params' = [params EXCEPT ![1] = [time_limit |-> cfg.time_limit,
                                        threads |-> NoneVal, randomseed |-> NoneVal]]
    /\ solver' = "running"
    /\ asg' = EmptyAssignment
    /\ solve_log' = Append(solve_log, 0)
    /\ UNCHANGED <<cfg, obj, problems, bounds, heur_solution, solution, status, error>>

\* solve() and the reads of the status and the objective value went
\* through, or one of them raised CplexSolverError (no solution exists),
\* which is raised again as TranspilerError with a fixed text; the method
\* returns nothing
mip_solve_returned ==
    /\ pc = "solving" /\ cfg.builder = "mip"
    /\ \/ solver = "running" /\ Complete(obj, split, asg) /\ solution' = asg
          /\ pc' = "returned" /\ error' = error
       \/ solver = "failed" /\ solution' = NoneVal /\ pc' = "raised"
          /\ error' = [type |-> "TranspilerError",
                       message |-> "Failed to solve MIP problem."]
    /\ UNCHANGED <<cfg, obj, problems, split, solver, asg, bounds, params, heur_solution, status,
                   solve_log>>

(***************************************************************************)
(* Reading the solution: get_layout and get_swaps of BIPMappingModel.      *)
(***************************************************************************)
\* get_layout(t): logical qubit q is on global_qubit[i] for the i with
\* w[t, q, i] = 1 (the last such i, were there several)
get_layout(o, sol, t) ==
    [q \in o.qubits |->
        o.global_qubit[(CHOOSE i \in o.qubits :
                            /\ W(sol, t, q, i) = 1
                            /\ \A j \in o.qubits : W(sol, t, q, j) = 1 => j <= i) + 1]]

\* the couplings get_swaps scans: every (i, j) of _arcs
BothDirections(o) == o.arcs

\* the couplings get_swaps scans: those (i, j) of _arcs with i < j
Ascending(o) == {a \in o.arcs : a[1] < a[2]}

RECURSIVE InOrder(_)
\* the pairs of a set as a list, in increasing order
InOrder(S) ==
    IF S = {} THEN <<>>
    ELSE LET least == CHOOSE a \in S : \A b \in S :
                          a[1] < b[1] \/ (a[1] = b[1] /\ a[2] <= b[2])
         IN <<least>> \o InOrder(S \ {least})

RECURSIVE SwapsOn(_, _, _, _, _)
\* the inner loop of get_swaps on the coupling arc, for the logical qubits
\* q, q + 1, ...: one entry for every q with x[t, q, i, j] = 1
SwapsOn(o, sol, t, arc, q) ==
    IF q \notin o.qubits THEN <<>>
    ELSE (IF X(sol, t, q, arc[1], arc[2]) = 1
          THEN <<<<o.global_qubit[arc[1] + 1], o.global_qubit[arc[2] + 1]>>>>
          ELSE <<>>)
         \o SwapsOn(o, sol, t, arc, q + 1)

RECURSIVE SwapsOver(_, _, _, _)
\* the outer loop of get_swaps over a list of couplings
SwapsOver(o, sol, t, arcs) ==
    IF arcs = <<>> THEN <<>>
    ELSE SwapsOn(o, sol, t, Head(arcs), 0) \o SwapsOver(o, sol, t, Tail(arcs))

\* get_swaps(t), t < depth - 1: the list of pairs of physical qubits (in the
\* caller's numbering) swapped at step t
get_swaps(o, sol, t) == SwapsOver(o, sol, t, InOrder(Ascending(o)))

Next ==
    \/ create_cpx_problem
    \/ SolverStep
    \/ SolverFail
    \/ bip_solve_enter
    \/ bip_window_solved
    \/ bip_window_failed
    \/ bip_exact_returned
    \/ mip_solve_enter
    \/ mip_solve_returned

Spec == Init /\ [][Next]_vars

(***************************************************************************)
(* Properties.  A solution of problem `split` is the solver's assignment   *)
(* once it is complete; the properties are stated on the variables' values *)
(* and on the inputs, not through the constraint definitions above.        *)
(***************************************************************************)
Solved == pc = "solving" /\ solver = "running" /\ Complete(obj, split, asg)
SolvedExact == Solved /\ split = ExactIndex(obj)
SolvedWindow == Solved /\ split < ExactIndex(obj)

\* the physical qubit logical qubit q is on at step t
Position(a, t, q) == CHOOSE j \in DOMAIN a.w[t + 1][q] : a.w[t + 1][q][j] = 1

\* does some logical qubit change its physical qubit between steps t and t + 1
MovesAt(a, t) == \E q \in DOMAIN a.w[t + 1] : Position(a, t, q) # Position(a, t + 1, q)

\* C1: in every solution of every built problem (exact or window, either
\* builder), each gate scheduled at step t has exactly one arc (i,j) with
\* y[t,p,q,i,j] = 1, that arc is a coupling of the device, and w[t,p,i] = 1
\* and w[t,q,j] = 1; at interior steps and at the last step alike.
C1_GateLegality ==
    Solved =>
        \A t \in 0..(Problem(obj, split).depth - 1) :
            \A g \in Problem(obj, split).gates[t + 1] :
                \E arc \in Arcs(Coupling(cfg)) :
                    /\ Y(asg, t, g, arc) = 1
                    /\ \A other \in DOMAIN asg.y[t + 1][g] :
                           other # arc => Y(asg, t, g, other) = 0
                    /\ W(asg, t, g[1], arc[1]) = 1
                    /\ W(asg, t, g[2], arc[2]) = 1

\* a window solution in which the qubits of an interior gate were moved
\* before it, and which has a gate at its last step
C1_Witness ==
    /\ SolvedWindow
    /\ \E t \in 1..(Problem(obj, split).depth - 2) :
          /\ Problem(obj, split).gates[t + 1] # {}
          /\ \E s \in 0..(t - 1) : MovesAt(asg, s)
    /\ Problem(obj, split).gates[Problem(obj, split).depth] # {}

\* C2: in every solution of every built problem, w[t,.,.] is a bijection
\* at every step: each logical qubit is on exactly one physical qubit and
\* each physical qubit holds exactly one logical qubit.
C2_Bijection ==
    pc = "solving" =>
        \A n \in 1..Len(asg.w) :
            /\ \A q \in PQubits(Coupling(cfg)) :
                   Cardinality({j \in PQubits(Coupling(cfg)) : asg.w[n][q][j] = 1}) = 1
            /\ \A j \in PQubits(Coupling(cfg)) :
                   Cardinality({q \in PQubits(Coupling(cfg)) : asg.w[n][q][j] = 1}) = 1

\* a solution of the exact problem whose placement changed along the way
C2_Witness ==
    /\ SolvedExact
    /\ \E t \in 0..(obj.depth - 2) : MovesAt(asg, t)

\* C3: in every solution of the exact problem, for every logical qubit q and
\* physical qubit i, w[t,q,i] = x[t,q,i,i] + sum over neighbours j of
\* x[t,q,i,j] (t < depth-1) and w[t+1,q,i] = x[t,q,i,i] + sum over
\* neighbours j of x[t,q,j,i]; so from one step to the next a logical qubit
\* stays or moves to a directly connected physical qubit.
C3_FlowConservation ==
    SolvedExact =>
        \A t \in 0..(obj.depth - 2) : \A q \in PQubits(Coupling(cfg)) :
            /\ \A i \in PQubits(Coupling(cfg)) :
                   /\ W(asg, t, q, i) = X(asg, t, q, i, i)
                        + Cardinality({j \in Neighbors(Coupling(cfg), i) :
                                          X(asg, t, q, i, j) = 1})
                   /\ W(asg, t + 1, q, i) = X(asg, t, q, i, i)
                        + Cardinality({j \in Neighbors(Coupling(cfg), i) :
                                          X(asg, t, q, j, i) = 1})
            /\ Position(asg, t + 1, q) \in
                   {Position(asg, t, q)} \cup Neighbors(Coupling(cfg), Position(asg, t, q))

\* an exact solution with a step at which one qubit moves and another stays
C3_Witness ==
    /\ SolvedExact
    /\ \E t \in 0..(obj.depth - 2) : \E q1, q2 \in PQubits(Coupling(cfg)) :
          /\ Position(asg, t, q1) # Position(asg, t + 1, q1)
          /\ Position(asg, t, q2) = Position(asg, t + 1, q2)

\* C4: in every solution of the exact problem, if a gate pairs p and q at
\* step t < depth-1 then x[t,p,i,j] = x[t,q,j,i] for every arc (i,j).
C4_GatePairMoves ==
    SolvedExact =>
        \A t \in 0..(obj.depth - 2) : \A g \in obj.gates[t + 1] :
            \A arc \in Arcs(Coupling(cfg)) :
                X(asg, t, g[1], arc[1], arc[2]) = X(asg, t, g[2], arc[2], arc[1])

\* an exact solution in which the two qubits of a gate swap places
C4_Witness ==
    /\ SolvedExact
    /\ \E t \in 0..(obj.depth - 2) : \E g \in obj.gates[t + 1] :
          \E arc \in Arcs(Coupling(cfg)) : X(asg, t, g[1], arc[1], arc[2]) = 1

\* the logical qubits of no gate of step t of the exact schedule
Uninvolved(t) ==
    {q \in PQubits(Coupling(cfg)) : \A g \in obj.gates[t + 1] : q # g[1] /\ q # g[2]}

\* C5: in every solution of the exact problem, for every step t < depth-1
\* and arc (i,j), as many qubits of no gate at t move i->j as move j->i.
C5_UninvolvedBalance ==
    SolvedExact =>
        \A t \in 0..(obj.depth - 2) : \A arc \in Arcs(Coupling(cfg)) :
            Cardinality({q \in Uninvolved(t) : X(asg, t, q, arc[1], arc[2]) = 1})
            = Cardinality({q \in Uninvolved(t) : X(asg, t, q, arc[2], arc[1]) = 1})

\* an exact solution in which two qubits of no gate swap places
C5_Witness ==
    /\ SolvedExact
    /\ \E t \in 0..(obj.depth - 2) : \E arc \in Arcs(Coupling(cfg)) :
          \E q \in Uninvolved(t) : X(asg, t, q, arc[1], arc[2]) = 1

\* C6: in every solution, z[t] = 1 for every dummy step t at which some
\* logical qubit moves along an arc, and z[t] >= z[t+1] whenever t and t+1
\* are both dummy steps.
C6_DummySteps ==
    Solved =>
        \A t \in 0..(Problem(obj, split).depth - 2) :
            Problem(obj, split).gates[t + 1] = {} =>
                /\ (\E k \in DOMAIN asg.x[t + 1] :
                        \E j \in DOMAIN asg.x[t + 1][k] :
                            j # k[2] /\ asg.x[t + 1][k][j] = 1)
                       => Z(asg, t) = 1
                /\ Problem(obj, split).gates[t + 2] = {} => Z(asg, t) >= Z(asg, t + 1)

\* a solution that moves qubits in the first of two consecutive dummy steps
\* and leaves the second unused
C6_Witness ==
    /\ Solved
    /\ \E t \in 0..(Problem(obj, split).depth - 3) :
          /\ Problem(obj, split).gates[t + 1] = {}
          /\ Problem(obj, split).gates[t + 2] = {}
          /\ MovesAt(asg, t)
          /\ Z(asg, t) = 1 /\ Z(asg, t + 1) = 0

\* C7: solve_cpx_problem hands the problems to the solver one after the
\* other: window 0, 1, ..., S-2 and then the exact problem, each once; a
\* problem other than the first is handed over only when the solve of its
\* predecessor has returned with a solution and the predecessor's values up
\* to its boundary are the bounds of the new problem; the call returns only
\* after the exact problem, solved last.
C7_SequentialSolves ==
    [][/\ solve_log' # solve_log =>
            /\ solve_log' = Append(solve_log, Len(solve_log))
            /\ Len(solve_log) <= obj.num_splits - 1
            /\ split' = Len(solve_log)
            /\ Len(solve_log) > 0 =>
                   /\ split = Len(solve_log) - 1
                   /\ solver = "running"
                   /\ Len(asg.w) = Len(obj.heur_gates[split + 1])
                   /\ bounds'[split' + 1].lb.w =
                          SubSeq(asg.w, 1, obj.heur_last_layer[split + 1])
                   /\ bounds'[split' + 1].ub.w =
                          SubSeq(asg.w, 1, obj.heur_last_layer[split + 1])
       /\ (pc' = "returned" /\ pc # "returned") =>
            /\ Len(solve_log) = obj.num_splits
            /\ \A n \in 1..Len(solve_log) : solve_log[n] = n - 1
            /\ split = obj.num_splits - 1
      ]_vars

\* a run of two windows and the exact problem has returned
C7_Witness ==
    /\ pc = "returned" /\ cfg.builder = "bip"
    /\ solve_log = <<0, 1, 2>>
    /\ status = SolvedStatus

\* C8: while the problem after window i (the next window, or the exact
\* problem after the last window) is being solved and afterwards, in that
\* problem every w, y and z variable of a step t < heur_last_layer[i] and
\* every x variable of a step t < heur_last_layer[i] - 1 has lower bound =
\* upper bound = its value in window i's solution, and no variable of a
\* later step is fixed.
C8_Fixing ==
    (cfg.builder = "bip" /\ split >= 1) =>
        LET b == bounds[split + 1]
            sol == heur_solution[split]
            boundary == obj.heur_last_layer[split]
        IN /\ Len(b.lb.w) = boundary /\ Len(b.ub.w) = boundary
           /\ Len(b.lb.y) = boundary /\ Len(b.ub.y) = boundary
           /\ Len(b.lb.z) = boundary /\ Len(b.ub.z) = boundary
           /\ Len(b.lb.x) = boundary - 1 /\ Len(b.ub.x) = boundary - 1
           /\ \A n \in 1..boundary :
                 /\ b.lb.w[n] = sol.w[n] /\ b.ub.w[n] = sol.w[n]
                 /\ b.lb.y[n] = sol.y[n] /\ b.ub.y[n] = sol.y[n]
                 /\ obj.gates[n] = {} => (b.lb.z[n] = sol.z[n] /\ b.ub.z[n] = sol.z[n])
           /\ \A n \in 1..(boundary - 1) :
                 b.lb.x[n] = sol.x[n] /\ b.ub.x[n] = sol.x[n]

\* the exact problem is being solved with the values of the last of two
\* windows fixed, among them a move and a used dummy step
C8_Witness ==
    /\ pc = "solving" /\ cfg.builder = "bip"
    /\ split >= 1 /\ split = ExactIndex(obj)
    /\ Len(asg.w) > obj.heur_last_layer[split]
    /\ \E n \in 1..(obj.heur_last_layer[split] - 1) :
          /\ obj.gates[n] = {}
          /\ bounds[split + 1].lb.z[n] = 1
          /\ MovesAt(heur_solution[split], n - 1)

\* the solver ended without a solution and solve_cpx_problem is over
FailureHandled == solver = "failed" /\ pc # "solving"

LLess(A, B) ==
    \/ Len(A) < Len(B)
    \/ /\ Len(A) = Len(B)
       /\ \E k \in 1..Len(A) : A[k] < B[k] /\ \A j \in (k + 1)..Len(A) : A[j] = B[j]

\* x + y of two floats, rounded
FloatAdd(x, y) ==
    LET emin == Min(x.e, y.e)
    IN RoundNat(LAdd(ShiftLeft(x.m, x.e - emin), ShiftLeft(y.m, y.e - emin)),
                emin, FALSE)

\* x < y for floats
FloatLess(x, y) == x.e < y.e \/ (x.e = y.e /\ LLess(x.m, y.m))

\* is x a float nearest to the rational a / b: |x * b - a| <= b * 2^e / 2
NearestTo(x, a, b) ==
    /\ x.e < 0 /\ BitLen(x.m) = MantissaBits
    /\ LET P2 == LMulC(x.m, 2 * b, 0)
           A2 == ShiftLeft(LOf(2 * a), 0 - x.e)
       IN /\ ~LLess(LAdd(A2, LOf(b)), P2)
          /\ ~LLess(LAdd(P2, LOf(b)), A2)

\* |x - y| <= n * 2^(y.e): x is within n units in the last place of y
WithinUlps(x, y, n) ==
    LET emin == Min(x.e, y.e)
        Nx == ShiftLeft(x.m, x.e - emin)
        Ny == ShiftLeft(y.m, y.e - emin)
        tol == ShiftLeft(LOf(n), y.e - emin)
    IN ~LLess(LAdd(Ny, tol), Nx) /\ ~LLess(LAdd(Nx, tol), Ny)

\* every problem has been given its time limit: the exact problem is about
\* to be solved
AllLimitsSet ==
    /\ cfg.builder = "bip" /\ pc = "solving" /\ solver = "running"
    /\ split = ExactIndex(obj) /\ asg = EmptyAssignment

RECURSIVE LimitSum(_)
\* the limits of problems 0 .. n - 1 added up in solve order, as floats
LimitSum(n) ==
    IF n = 1 THEN params[1].time_limit
    ELSE FloatAdd(LimitSum(n - 1), params[n].time_limit)

\* the exact share of problem k: T * (S - k) / (S * (S + 1) / 2); S - k is 1
\* for the exact problem k = S - 1
LimitsAreShares ==
    \A k \in 0..(obj.num_splits - 1) :
        NearestTo(params[k + 1].time_limit,
                  cfg.time_limit * (obj.num_splits - k),
                  (obj.num_splits * (obj.num_splits + 1)) \div 2)

LimitsDecrease ==
    \A k \in 1..(obj.num_splits - 1) :
        FloatLess(params[k + 1].time_limit, params[k].time_limit)

C11_Schedule ==
    LET L == Len(cfg.su4layers)
        D == cfg.dummy_timesteps
    IN ConstructionError(cfg) = NoError =>
       /\ obj.depth = L + (L - 1) * D
       /\ Len(obj.gates) = obj.depth
       /\ \A k \in 0..(L - 1) : obj.gates[k * (D + 1) + 1] = cfg.su4layers[k + 1]
       /\ \A t \in 0..(obj.depth - 1) :
              /\ t % (D + 1) # 0 => obj.gates[t + 1] = {}
              /\ IsDummyStep(obj, t) <=> t % (D + 1) # 0
       /\ obj.gates[obj.depth] # {}
       /\ Gates([cfg EXCEPT !.builder = "bip"]) = Gates([cfg EXCEPT !.builder = "mip"])

\* a schedule of two layers with two dummy steps between them
C11_Witness ==
    /\ pc = "created"
    /\ Len(cfg.su4layers) = 2 /\ cfg.dummy_timesteps = 2
    /\ obj.depth = 4
    /\ obj.gates[2] = {} /\ obj.gates[3] = {} /\ obj.gates[4] # {}

(***************************************************************************)
(* Layouts.  A layout is a bijection from logical to physical qubits; it   *)
(* serves a schedule when it puts every gate of every step on a coupling.  *)
(***************************************************************************)
Layouts(o) == {f \in [o.qubits -> o.qubits] : \A p, q \in o.qubits : p # q => f[p] # f[q]}

Serves(o, f) ==
    \A n \in 1..Len(o.gates) : \A g \in o.gates[n] : <<f[g[1]], f[g[2]]>> \in o.arcs

Routable(o) == \E f \in Layouts(o) : Serves(o, f)

IdentityLayout(o) == [q \in o.qubits |-> q]

\* the assignment of problem m that keeps layout f at every step: every
\* qubit stays, every gate is on the coupling under its two qubits, no
\* dummy step is used
Static(o, m, f) ==
    [w |-> [n \in 1..m.depth |->
               [q \in o.qubits |-> [j \in o.qubits |-> IF f[q] = j THEN 1 ELSE 0]]],
     y |-> [n \in 1..m.depth |->
               [g \in m.gates[n] |->
                   [arc \in o.arcs |->
                       IF arc = <<f[g[1]], f[g[2]]>> THEN 1 ELSE 0]]],
     x |-> [n \in 1..(m.depth - 1) |->
               [k \in o.qubits \X o.qubits |->
                   [j \in XTargets(o, m, n - 1, k[2]) |->
                       IF f[k[1]] = k[2] /\ j = k[2] THEN 1 ELSE 0]]],
     z |-> [n \in 1..m.depth |->
               IF ~HasZ(o, m, n - 1) THEN NoneVal
               ELSE IF o.builder = "mip" /\ ~IsDummyStep(o, n - 1) THEN 1 ELSE 0]]

ExactProblem(o) == Problem(o, ExactIndex(o))

\* no logical qubit is moved and no dummy step is used
NoMovement(o, m, a) ==
    /\ \A n \in 1..Len(a.x) : \A k \in DOMAIN a.x[n] : \A j \in DOMAIN a.x[n][k] :
           j # k[2] => a.x[n][k][j] = 0
    /\ \A t \in 0..(Len(a.z) - 1) : HasZ(o, m, t) => Z(a, t) = 0

\* C12: BIPMappingModel with the depth objective, on a circuit that some
\* fixed layout serves.  Keeping that layout at every step is a feasible
\* solution of the exact problem of objective value 0, the least value a
\* sum of nonnegative terms can have; and every solution of the exact
\* problem with that optimal value has every x[t,q,i,j], i # j, at 0, every
\* z[t] at 0, and an empty get_swaps(t) at every step t < depth - 1.
C12_RoutableNoSwaps ==
    (cfg.builder = "bip" /\ cfg.objective = "depth") =>
        /\ pc = "created" =>
               \A f \in Layouts(obj) :
                   Serves(obj, f) =>
                       /\ Feasible(obj, ExactProblem(obj), Static(obj, ExactProblem(obj), f))
                       /\ DepthObjective(obj, ExactProblem(obj),
                                         Static(obj, ExactProblem(obj), f)) = 0
        /\ (SolvedExact /\ Routable(obj)
               /\ DepthObjective(obj, ExactProblem(obj), asg) = 0) =>
               /\ NoMovement(obj, ExactProblem(obj), asg)
               /\ \A t \in 0..(obj.depth - 2) : get_swaps(obj, asg, t) = <<>>

\* an optimal solution of the exact problem of a line, for a circuit of
\* three layers or more with dummy steps that the identity layout serves
C12_Witness ==
    /\ SolvedExact /\ cfg.builder = "bip" /\ cfg.objective = "depth"
    /\ Coupling(cfg) = Line3
    /\ Len(cfg.su4layers) >= 3 /\ cfg.dummy_timesteps >= 1
    /\ Serves(obj, IdentityLayout(obj))
    /\ DepthObjective(obj, ExactProblem(obj), asg) = 0

\* the run returned a solution of the exact problem
Returned == pc = "returned" /\ status = SolvedStatus

\* C13: BIPMappingModel with the depth objective, on a circuit that the
\* identity layout serves and a device whose qubits the caller numbers as
\* the model does: in every optimal solution returned, get_layout(t) maps
\* logical qubit q to physical qubit q at every step t.
C13_IdentityLayout ==
    (/\ Returned /\ cfg.builder = "bip" /\ cfg.objective = "depth"
     /\ \A q \in obj.qubits : obj.global_qubit[q + 1] = q
     /\ Serves(obj, IdentityLayout(obj))
     /\ DepthObjective(obj, ExactProblem(obj), solution) = 0) =>
        \A t \in 0..(obj.depth - 1) : get_layout(obj, solution, t) = IdentityLayout(obj)

\* assignment a of problem m respects the variable bounds b
InBounds(o, m, b, a) ==
    /\ \A t \in 0..(m.depth - 1) :
           /\ \A q \in o.qubits : WInBounds(b, t, q, a.w[t + 1][q])
           /\ \A g \in GatesAt(m, t) : YInBounds(b, t, g, a.y[t + 1][g])
           /\ HasZ(o, m, t) => ZInBounds(o, b, t, Z(a, t))
    /\ \A t \in 0..(m.depth - 2) :
           \A q \in o.qubits : \A i \in o.qubits :
               XInBounds(b, t, q, i, a.x[t + 1][<<q, i>>])

\* some layout kept at every step is a solution of problem m within bounds b
StaticSolutionExists(o, m, b) ==
    \E f \in Layouts(o) :
        Feasible(o, m, Static(o, m, f)) /\ InBounds(o, m, b, Static(o, m, f))

\* a certificate that solution a of problem m is optimal for the depth
\* objective among the solutions within bounds b: its value is 0; or no
\* static solution exists within b and its value is that of two movement
\* variables (a solution that is not static moves one qubit off a physical
\* qubit and another one onto it)
DepthOptimalWithin(o, m, b, a) ==
    \/ DepthObjective(o, m, a) = 0
    \/ ~StaticSolutionExists(o, m, b) /\ DepthObjective(o, m, a) = 2 * MoveCost

\* C14 (depth objective): when a run with S = 2 returns, its window was
\* solved to optimality and its exact problem was solved to optimality
\* under the values fixed from the window, then the objective value of the
\* final solution is the optimal value of the exact problem solved alone
\* (S = 1), which is 0 for a circuit that a fixed layout serves.
C14_StitchingKeepsOptimum ==
    (/\ Returned /\ cfg.builder = "bip" /\ cfg.objective = "depth"
     /\ obj.num_splits = 2
     /\ Routable(obj)
     /\ DepthObjective(obj, Problem(obj, 0), heur_solution[1]) = 0
     /\ DepthOptimalWithin(obj, ExactProblem(obj), bounds[2], solution)) =>
        DepthObjective(obj, ExactProblem(obj), solution) = 0

\* the arguments of the run with objective "balanced" and depth weight 0
BalancedWithoutWeight(c) == [c EXCEPT !.objective = "balanced", !.depth_obj_weight = 0]

\* C15: when BIPMappingModel has built its problems for the error objective
\* ("gate_error"), building them for "balanced" with depth_obj_weight = 0
\* succeeds as well and gives every problem, the exact one and every
\* window, the same function to minimize.
C15_BalancedZeroIsError ==
    (pc = "created" /\ cfg.builder = "bip" /\ cfg.objective = "gate_error") =>
        /\ CreateError(BalancedWithoutWeight(cfg), obj) = NoError
        /\ problems = ProblemsCreated(BalancedWithoutWeight(cfg), obj)
        /\ \A k \in 0..ExactIndex(obj) :
               ObjectiveOf(cfg, obj, k) = ObjectiveOf(BalancedWithoutWeight(cfg), obj, k)

\* the split count the requested count n and the number L of layers give
EffectiveSplits(n, L) ==
    IF n \in {0, 1} THEN 1
    ELSE IF n = -1 THEN Max(1, (L - 2) \div 2)
    ELSE Min(n, Max(1, L - 2))

\* C16: BIPMappingModel rejects a requested split count below -1 at
\* construction (with ValueError, when the device passed the check made
\* before); otherwise its split count is EffectiveSplits(n, L), that many
\* problems are built (the windows and the exact problem), and a circuit
\* of at most two layers has the exact problem only.
C16_SplitCount ==
    LET n == cfg.num_splits
        L == Len(cfg.su4layers)
    IN cfg.builder = "bip" =>
        /\ n < -1 =>
               /\ pc = "raised" /\ obj = NoObject /\ problems = <<>>
               /\ Connected(Coupling(cfg)) =>
                      error = [type |-> "ValueError", message |-> "Invalid number of splits"]
        /\ (n >= -1 /\ ConstructionError(cfg) = NoError) =>
               /\ obj.num_splits = EffectiveSplits(n, L)
               /\ Len(problems) = EffectiveSplits(n, L)
               /\ Len(obj.heur_gates) = EffectiveSplits(n, L) - 1
               /\ L <= 2 => obj.num_splits = 1 /\ obj.heur_gates = <<>>
               /\ pc = "created" => \A k \in 1..Len(problems) : problems[k].built

\* the automatic choice on six layers: two problems built, the second
\* being solved after the window
C16_Witness ==
    /\ cfg.builder = "bip" /\ cfg.num_splits = -1 /\ Len(cfg.su4layers) = 6
    /\ pc = "solving" /\ split = 1
    /\ obj.num_splits = 2
    /\ problems[1].built /\ problems[2].built

\* C17: a model constructed on a coupling map that is not connected (once
\* reduced to qubit_subset, where the builder takes one), or for a circuit
\* whose number of qubits differs from the number of physical qubits, has
\* raised at construction: there is no model object, no problem was built,
\* no variable has a value, and an error is pending.
C17_RejectedAtConstruction ==
    (~Connected(Coupling(cfg)) \/ cfg.num_vqubits # Coupling(cfg).size) =>
        /\ pc = "raised"
        /\ obj = NoObject
        /\ problems = <<>> /\ bounds = <<>> /\ asg = EmptyAssignment
        /\ error # NoError

\* the three objective kinds under the names a builder gives them: the
\* error kind is "gate_error" for BIPMappingModel, "error" for MIPMappingModel
ObjectiveKinds(builder) ==
    {"depth", "balanced", IF builder = "bip" THEN "gate_error" ELSE "error"}

\* C18: once create_cpx_problem has run on a constructed model, a tag that
\* is none of the three objective kinds has raised the unknown-objective
\* error, and none of the three kinds has.
C18_ObjectiveTags ==
    (ConstructionError(cfg) = NoError /\ pc # "init") =>
        /\ cfg.objective \notin ObjectiveKinds(cfg.builder) =>
               pc = "raised" /\ error = UnknownObjective
        /\ cfg.objective \in ObjectiveKinds(cfg.builder) => error # UnknownObjective

\* how often pair e occurs in the list
Occurrences(list, e) == Cardinality({n \in 1..Len(list) : list[n] = e})

\* some logical qubit is on one end of the coupling at step t and on the
\* other end at step t + 1
MovesAcross(a, t, i, j) ==
    \E q \in DOMAIN a.w[t + 1] :
        \/ Position(a, t, q) = i /\ Position(a, t + 1, q) = j
        \/ Position(a, t, q) = j /\ Position(a, t + 1, q) = i

\* C19: for a solution of the exact problem of BIPMappingModel and every
\* step t < depth - 1, get_swaps(t) holds the pair (global_qubit[i],
\* global_qubit[j]), i < j, once if a logical qubit moves across the
\* coupling {i, j} between t and t + 1 and not at all otherwise; it never
\* holds the reversed pair, and it holds nothing else.
C19_SwapsOnce ==
    (SolvedExact /\ cfg.builder = "bip") =>
        \A t \in 0..(obj.depth - 2) :
            LET swaps == get_swaps(obj, asg, t)
                global(i) == obj.global_qubit[i + 1]
            IN /\ \A i, j \in obj.qubits :
                      (i < j /\ <<i, j>> \in obj.arcs) =>
                          /\ Occurrences(swaps, <<global(i), global(j)>>)
                                 = IF MovesAcross(asg, t, i, j) THEN 1 ELSE 0
                          /\ Occurrences(swaps, <<global(j), global(i)>>) = 0
               /\ \A n \in 1..Len(swaps) :
                      \E i, j \in obj.qubits :
                          /\ <<i, j>> \in obj.arcs
                          /\ swaps[n] = <<global(i), global(j)>>

\* a solution on the triangle of the physical qubits 1, 2, 3 with a swap of
\* the qubits 2 and 3 at one step and a swap of 1 and 3 at another
C19_Witness ==
    /\ SolvedExact /\ cfg.builder = "bip"
    /\ obj.global_qubit = <<1, 2, 3>>
    /\ \E s, t \in 0..(obj.depth - 2) :
          /\ get_swaps(obj, asg, s) = << <<2, 3>> >>
          /\ get_swaps(obj, asg, t) = << <<1, 3>> >>

\* sets of couplings no two of which share a qubit
Matchings(cm) ==
    {M \in SUBSET Edges(cm) :
        \A d, e \in M : d # e => {d[1], d[2]} \cap {e[1], e[2]} = {}}

\* some layer has more gates than the coupling map has couplings that
\* pairwise share no qubit
Overfull(c) ==
    \E n \in 1..Len(c.su4layers) :
        \A M \in Matchings(Coupling(c)) : Cardinality(c.su4layers[n]) > Cardinality(M)

\* C20: a circuit with an overfull layer, whatever the number of dummy
\* steps: the solver never completes an assignment of the exact problem
\* (so that no solution is stored and no layout can be read), and a run
\* that returns has the status of a failed solve.
C20_Unmappable ==
    (ConstructionError(cfg) = NoError /\ Overfull(cfg)) =>
        /\ pc = "solving" => ~Complete(obj, split, asg)
        /\ status # SolvedStatus
        /\ pc = "returned" => solver = "failed" /\ status = FailedStatus

\* the search placed the first layer and went through two dummy steps,
\* moving qubits in the first of them, and cannot place the layer of two
\* gates
C20_Witness ==
    /\ pc = "solving" /\ Overfull(cfg)
    /\ cfg.dummy_timesteps = 2 /\ Len(cfg.su4layers) = 2
    /\ Len(asg.w) = obj.depth - 1
    /\ MovesAt(asg, 0)

\* the movement variables x[t, q, i, j], i # j, of assignment a that are 1
MovedVariables(a) ==
    {k \in UNION {{n} \X DOMAIN a.x[n] : n \in 1..Len(a.x)} :
        \E j \in DOMAIN a.x[k[1]][k[2]] : j # k[2][2] /\ a.x[k[1]][k[2]][j] = 1}

\* the dummy steps of problem m whose z is 1 in assignment a
DummyStepsUsed(o, m, a) ==
    {t \in 0..(m.depth - 1) : IsDummyStep(o, t) /\ HasZ(o, m, t) /\ Z(a, t) = 1}

\* what the steps that are not dummy steps add to the value: nothing, or
\* the same amount for every solution where the builder has a variable
\* fixed to 1 for each of them
RealSteps(o, m) ==
    IF o.builder = "mip"
    THEN 100 * Cardinality({t \in 0..(m.depth - 1) : ~IsDummyStep(o, t)})
    ELSE 0

\* C21: for every solution of a problem built with the depth objective
\* (exact or window, either builder), the objective value is, in
\* hundredths and up to the constant RealSteps, 100 for every used dummy
\* step plus 1 for every movement variable x[t,q,i,j], i # j, that is 1;
\* and a solution that uses no dummy step but moves a qubit has a larger
\* value than the solution that keeps a serving layout at every step.
C21_DepthValue ==
    (Solved /\ cfg.objective = "depth") =>
        LET m == Problem(obj, split)
        IN /\ DepthValue(obj, m, asg)
                  = RealSteps(obj, m)
                    + 100 * Cardinality(DummyStepsUsed(obj, m, asg))
                    + Cardinality(MovedVariables(asg))
           /\ \A f \in Layouts(obj) :
                  (/\ Serves(obj, f) /\ split = ExactIndex(obj)
                   /\ DummyStepsUsed(obj, m, asg) = {}
                   /\ MovedVariables(asg) # {}) =>
                      DepthValue(obj, m, asg) > DepthValue(obj, m, Static(obj, m, f))

C23_Windows ==
    (ConstructionError(cfg) = NoError /\ cfg.builder = "bip" /\ NumSplits(cfg) > 1) =>
        LET L == Len(cfg.su4layers)
            D == cfg.dummy_timesteps
            S == obj.num_splits
            size == Max(1, Max(1, L - 2) \div S)
            boundary(i) == size * (i + 1) * (D + 1) + 1
        IN /\ Len(obj.heur_gates) = S - 1 /\ Len(problems) = S
           /\ \A i \in 0..(S - 2) :
                  LET window == Problem(obj, i)
                      at(k) == k + D * Min(k, size * (i + 1))
                  IN /\ window.depth = L + D * size * (i + 1)
                     /\ window.depth <= obj.depth
                     /\ \A k \in 0..(L - 1) : window.gates[at(k) + 1] = cfg.su4layers[k + 1]
                     /\ \A t \in 0..(window.depth - 1) :
                            (\A k \in 0..(L - 1) : t # at(k)) => window.gates[t + 1] = {}
                     /\ window.last = boundary(i)
                     /\ window.gates[boundary(i)] = cfg.su4layers[size * (i + 1) + 1]
                     /\ boundary(i) < obj.depth
                     /\ i > 0 => Problem(obj, i - 1).last < boundary(i)
                     /\ \A t \in 0..(window.depth - 2) : \A p \in obj.qubits :
                            /\ t < boundary(i) - 1 =>
                                   /\ XNeighbors(obj, window, t, p) = Neighbors(Coupling(cfg), p)
                                   /\ UsesMoveBound(window, t)
                            /\ t >= boundary(i) - 1 =>
                                   /\ XNeighbors(obj, window, t, p)
                                          = {j \in obj.qubits :
                                                j # p /\ Distance(Coupling(cfg), p, j) <= D}
                                   /\ ~UsesMoveBound(window, t)

\* a solution of the window of a run with S = 2 and one dummy step after
\* each of its first two layers, in which a qubit moves at the boundary
C23_Witness ==
    /\ SolvedWindow /\ obj.num_splits = 2 /\ cfg.dummy_timesteps = 1
    /\ Problem(obj, 0).last = 3 /\ Problem(obj, 0).depth = 5
    /\ MovesAt(asg, 2)

(***************************************************************************)
(* The two builders                                                        *)
(***************************************************************************)
\* the arguments that give the other builder the same schedule and the same
\* connectivity, and its exact problem only
OtherBuilder(c) ==
    [c EXCEPT !.builder = IF c.builder = "bip" THEN "mip" ELSE "bip",
              !.coupling = Coupling(c),
              !.qubit_subset = IF c.builder = "bip" THEN <<>>
                               ELSE [n \in 1..Coupling(c).size |-> n - 1],
              !.num_splits = 1]

\* the w, x and y values of assignment a in the exact problem of model o,
\* with the step-used variables o has: those of a at the dummy steps, 1 at
\* the steps with gates where o has such a variable
Transfer(o, a) ==
    [w |-> a.w, y |-> a.y, x |-> a.x,
     z |-> [n \in 1..Len(a.z) |->
               IF ~HasZ(o, ExactProblem(o), n - 1) THEN NoneVal
               ELSE IF IsDummyStep(o, n - 1) THEN a.z[n] ELSE 1]]

\* C24: for the same schedule and the same symmetric connectivity, every
\* solution of the exact problem of one builder satisfies, in its w, x and
\* y values, every constraint of the exact problem of the other builder
\* (line_symm and cycle_symm off), in either direction: the two constraint
\* systems have the same feasible w, x, y assignments.
C24_SameFeasibleSet ==
    (SolvedExact /\ ConstructionError(OtherBuilder(cfg)) = NoError) =>
        LET other == Construct(OtherBuilder(cfg))
        IN /\ other.gates = obj.gates /\ other.arcs = obj.arcs
           /\ Feasible(other, ExactProblem(other), Transfer(other, asg))

\* a solution of the exact problem of MIPMappingModel, which has no lower
\* bound on y, with a gate at a step where a qubit moves, read as an
\* assignment of the exact problem of BIPMappingModel
C24_Witness ==
    /\ SolvedExact /\ cfg.builder = "mip"
    /\ ConstructionError(OtherBuilder(cfg)) = NoError
    /\ Construct(OtherBuilder(cfg)).builder = "bip"
    /\ \E t \in 0..(obj.depth - 2) : ~IsDummyStep(obj, t) /\ MovesAt(asg, t)

(***************************************************************************)
(* Movement between two steps                                              *)
(***************************************************************************)
\* the logical qubit on physical qubit i at step t
Occupant(a, t, i) == CHOOSE q \in DOMAIN a.w[t + 1] : a.w[t + 1][q][i] = 1

\* the partner of q in gate g
Partner(g, q) == IF g[1] = q THEN g[2] ELSE g[1]

\* C25: in every solution of the exact problem (either builder), whenever a
\* logical qubit q moves from i to j between steps t and t + 1, (i,j) is a
\* coupling, x[t,q,i,j] = 1, and the logical qubit that was on j moves to i
\* in the same step (so the moves of a step are disjoint swaps, and no
\* three qubits rotate); if q is in a gate at step t, the qubit it swaps
\* with is its partner in that gate.
C25_DisjointSwaps ==
    SolvedExact =>
        \A t \in 0..(obj.depth - 2) : \A q \in obj.qubits :
            LET i == Position(asg, t, q)
                j == Position(asg, t + 1, q)
                r == Occupant(asg, t, j)
            IN i # j =>
                 /\ <<i, j>> \in obj.arcs
                 /\ X(asg, t, q, i, j) = 1
                 /\ Position(asg, t + 1, r) = i
                 /\ X(asg, t, r, j, i) = 1
                 /\ \A s \in obj.qubits \ {q, r} :
                        Position(asg, t, s) \notin {i, j} /\ Position(asg, t + 1, s) \notin {i, j}
                 /\ \A g \in obj.gates[t + 1] : q \in {g[1], g[2]} => r = Partner(g, q)

\* an exact solution on a device with a triangle of couplings in which, at
\* a dummy step, two qubits swap while the third stays, and, at a step with
\* a gate, the two qubits of the gate swap
C25_Witness ==
    /\ SolvedExact
    /\ \A i, j \in 0..2 : i # j => <<i, j>> \in obj.arcs
    /\ \E t \in 0..(obj.depth - 2) :
          /\ obj.gates[t + 1] = {}
          /\ MovesAt(asg, t)
          /\ \E s \in obj.qubits : Position(asg, t, s) = Position(asg, t + 1, s)
    /\ \E t \in 0..(obj.depth - 2) : \E g \in obj.gates[t + 1] :
          Position(asg, t, g[1]) = Position(asg, t + 1, g[2])

(***************************************************************************)
(* The prefix shared by the windows and the exact problem                  *)
(***************************************************************************)
\* C26: for every window i, every later problem (window or exact) and every
\* step t below window i's boundary: t is a step of the later problem, the
\* two schedules have the same gates at t, which are the gates of the exact
\* schedule at t (so t is a dummy step in all or in none), both problems
\* have z[t] exactly when t is a dummy step, and, for t below the boundary
\* less one, both problems have x[t,q,p,j] for j = p and the neighbours j of
\* p: the names the driver reads from window i exist in the problem it
\* writes to and stand for the same qubits and gates.
C26_AlignedPrefix ==
    (ConstructionError(cfg) = NoError /\ cfg.builder = "bip" /\ NumSplits(cfg) > 1) =>
        \A i \in 0..(obj.num_splits - 2) : \A k \in (i + 1)..(obj.num_splits - 1) :
            LET window == Problem(obj, i)
                later == Problem(obj, k)
            IN \A t \in 0..(window.last - 1) :
                   /\ t < later.depth /\ t < later.last
                   /\ window.gates[t + 1] = later.gates[t + 1]
                   /\ window.gates[t + 1] = obj.gates[t + 1]
                   /\ HasZ(obj, window, t) <=> IsDummyStep(obj, t)
                   /\ HasZ(obj, later, t) <=> IsDummyStep(obj, t)
                   /\ t < window.last - 1 =>
                          /\ t < later.last - 1
                          /\ \A p \in obj.qubits :
                                 /\ XTargets(obj, window, t, p) = {p} \cup obj.neighbors[p]
                                 /\ XTargets(obj, later, t, p) = {p} \cup obj.neighbors[p]

\* the exact problem is being solved after the window of a run with S = 2
\* and one dummy step per layer, with the window's z of the dummy step 1
\* fixed to 1
C26_Witness ==
    /\ cfg.builder = "bip" /\ pc = "solving" /\ split = 1
    /\ obj.num_splits = 2 /\ cfg.dummy_timesteps = 1
    /\ Problem(obj, 0).last = 3
    /\ bounds[2].lb.z[2] = 1 /\ bounds[2].ub.z[2] = 1

(***************************************************************************)
(* The final solution and the windows                                      *)
(***************************************************************************)
\* C27: in every later solve (the following windows and the exact problem)
\* the solver's values at the steps below the boundary of an earlier window
\* i are those of window i's solution: w, y and z at the steps below the
\* boundary, x at the steps below the boundary less one.  So when
\* solve_cpx_problem of BIPMappingModel has returned a solution after
\* S - 1 >= 1 windows, the final solution has the prefix of every window,
\* also of the windows before the last, whose values the exact problem was
\* not given directly.
C27_PrefixKept ==
    /\ (cfg.builder = "bip" /\ pc = "solving" /\ split >= 1) =>
           \A i \in 0..(split - 1) :
               LET boundary == obj.heur_last_layer[i + 1]
                   window == heur_solution[i + 1]
               IN /\ \A n \in 1..Min(Len(asg.w), boundary) :
                         /\ asg.w[n] = window.w[n]
                         /\ asg.y[n] = window.y[n]
                         /\ asg.z[n] = window.z[n]
                  /\ \A n \in 1..Min(Len(asg.x), boundary - 1) : asg.x[n] = window.x[n]
    /\ (Returned /\ cfg.builder = "bip" /\ obj.num_splits > 1) =>
           /\ Len(heur_solution) = obj.num_splits - 1
           /\ \A i \in 0..(obj.num_splits - 2) :
                  LET boundary == obj.heur_last_layer[i + 1]
                      window == heur_solution[i + 1]
                  IN /\ SubSeq(solution.w, 1, boundary) = window.w
                     /\ SubSeq(solution.y, 1, boundary) = window.y
                     /\ SubSeq(solution.z, 1, boundary) = window.z
                     /\ SubSeq(solution.x, 1, boundary - 1) = window.x

\* a run with two windows has returned a solution in which a qubit moves
\* below the boundary of the first window
C27_Witness ==
    /\ Returned /\ cfg.builder = "bip" /\ obj.num_splits = 3
    /\ \E t \in 0..(obj.heur_last_layer[1] - 2) : MovesAt(solution, t)

(***************************************************************************)
(* The solver, by layouts.  In a feasible assignment the w values of a     *)
(* step are a layout (assignment constraints), the x values of a step are  *)
(* the moves from one layout to the next (flow constraints) and the y      *)
(* values mark the coupling under the two qubits of each gate (McCormick   *)
(* bounds and implement_gate); only z is free.  The solver's steps are      *)
(* enumerated here through the layouts, which is what a device of six      *)
(* qubits needs.                                                           *)
(***************************************************************************)
\* w[t, q, j] of layout f
WOf(o, f) == [q \in o.qubits |-> [j \in o.qubits |-> IF f[q] = j THEN 1 ELSE 0]]

\* y[t, p, q, i, j] of layout f
YOf(o, m, t, f) ==
    [g \in GatesAt(m, t) |->
        [arc \in o.arcs |-> IF arc = <<f[g[1]], f[g[2]]>> THEN 1 ELSE 0]]

\* x[t, q, i, j] of the move from layout f to layout f2
XOf(o, m, t, f, f2) ==
    [k \in o.qubits \X o.qubits |->
        [j \in XTargets(o, m, t, k[2]) |->
            IF f[k[1]] = k[2] /\ f2[k[1]] = j THEN 1 ELSE 0]]

\* the layout of step t of assignment a
LayoutAt(o, a, t) == [q \in o.qubits |-> Position(a, t, q)]

Injective(o, f) == \A p, q \in o.qubits : p # q => f[p] # f[q]

\* the layouts of step 0 that the bounds on w[0] allow
FirstLayouts(o, b) ==
    {f \in Product([q \in o.qubits |->
                       {j \in o.qubits : Len(b.ub.w) >= 1 => b.ub.w[1][q][j] >= 1}],
                   o.qubits) : Injective(o, f)}

\* the layouts that layout f can turn into at step t of problem m: every
\* qubit stays or goes to a physical qubit x[t] is defined for
NextLayouts(o, m, t, f) ==
    {f2 \in Product([q \in o.qubits |-> XTargets(o, m, t, f[q])], o.qubits) :
        Injective(o, f2)}

\* assignment a with x[t-1], w[t], y[t] of layout f and z[t] = zs appended
Extend(o, m, a, f, zs) ==
    LET t == Len(a.w)
        a1 == IF t = 0 THEN a
              ELSE [a EXCEPT !.x = Append(@, XOf(o, m, t - 1, LayoutAt(o, a, t - 1), f))]
    IN [a1 EXCEPT !.w = Append(@, WOf(o, f)), !.y = Append(@, YOf(o, m, t, f)),
                  !.z = Append(@, zs)]

\* the constraints and bounds on the variables of the last step of a
StepFeasible(o, m, b, a) ==
    LET t == Len(a.w) - 1
    IN /\ t >= 1 =>
              /\ MoveConstraints(o, m, a, t - 1)
              /\ \A q \in o.qubits : \A i \in o.qubits :
                     XInBounds(b, t - 1, q, i, a.x[t][<<q, i>>])
       /\ PlaceConstraints(o, m, a, t)
       /\ \A q \in o.qubits : WInBounds(b, t, q, a.w[t + 1][q])
       /\ \A g \in GatesAt(m, t) : YInBounds(b, t, g, a.y[t + 1][g])

\* the partial assignments the solver can go to from a
LayoutExtensions(o, m, b, a) ==
    LET t == Len(a.w)
        layouts == IF t = 0 THEN FirstLayouts(o, b)
                   ELSE NextLayouts(o, m, t - 1, LayoutAt(o, a, t - 1))
    IN {a2 \in {Extend(o, m, a, f, zs) : f \in layouts, zs \in ZCandidates(o, m, b, t)} :
           StepFeasible(o, m, b, a2)}

LayoutStep ==
    /\ pc = "solving" /\ solver = "running"
    /\ ~Complete(obj, split, asg)
    /\ asg' \in LayoutExtensions(obj, Problem(obj, split), bounds[split + 1], asg)
    /\ UNCHANGED <<cfg, obj, problems, pc, split, solver, bounds, params, heur_solution,
                   solution, status, error, solve_log>>

RECURSIVE CanComplete(_, _, _, _)
\* can the partial assignment a of problem m be extended, step by step, to
\* a complete assignment that satisfies every constraint of m within the
\* bounds b
CanComplete(o, m, b, a) ==
    IF Len(a.w) = m.depth THEN TRUE
    ELSE \E a2 \in LayoutExtensions(o, m, b, a) : CanComplete(o, m, b, a2)

(***************************************************************************)
(* A device of six qubits: a triangle 0, 1, 2 with one more qubit attached *)
(* to each corner, and a circuit of four layers on it, run with one dummy  *)
(* step per layer and two problems (one window, then the exact problem).   *)
(***************************************************************************)
Sun6 == [size |-> 6, edges |-> {<<0, 1>>, <<1, 2>>, <<0, 2>>, <<0, 3>>, <<1, 4>>, <<2, 5>>}]

Crossing ==
    <<{<<1, 2>>, <<0, 4>>}, {<<1, 5>>, <<2, 4>>}, {<<3, 4>>, <<1, 2>>, <<0, 5>>},
      {<<1, 2>>, <<0, 3>>, <<4, 5>>}>>

WindowConfigs ==
    {[builder |-> "bip", coupling |-> Sun6, qubit_subset |-> <<0, 1, 2, 3, 4, 5>>,
      num_vqubits |-> 6, su4layers |-> Crossing, dummy_timesteps |-> 1, num_splits |-> 2,
      objective |-> "depth", depth_obj_weight |-> 1, time_limit |-> 100,
      threads |-> NoneVal]}

\* the state after BIPMappingModel is constructed with these arguments
WindowInit ==
    /\ cfg \in WindowConfigs
    /\ obj = IF ConstructionError(cfg) = NoError THEN Construct(cfg) ELSE NoObject
    /\ pc = IF ConstructionError(cfg) = NoError THEN "init" ELSE "raised"
    /\ split = 0
    /\ solver = "idle"
    /\ asg = EmptyAssignment
    /\ bounds = <<>>
    /\ params = <<>>
    /\ heur_solution = <<>>
    /\ solution = NoneVal
    /\ status = NoneVal
    /\ error = ConstructionError(cfg)
    /\ solve_log = <<>>
    /\ problems = IF ConstructionError(cfg) = NoError
                  THEN [k \in 1..NumSplits(cfg) |-> NotBuilt] ELSE <<>>

WindowNext ==
    \/ create_cpx_problem
    \/ LayoutStep
    \/ SolverFail
    \/ bip_solve_enter
    \/ bip_window_solved
    \/ bip_window_failed
    \/ bip_exact_returned

WindowSpec == WindowInit /\ [][WindowNext]_vars

\* C28: whenever the exact problem has a solution without any fixed value
\* and a window has a solution, the next problem (the following window, or
\* the exact problem) has a solution within the bounds that fix the
\* window's values below its boundary: from the layout the window chose at
\* its boundary layer the remaining layers can be served with the swaps of
\* the steps in between.
C28_FixingKeepsFeasible ==
    (/\ SolvedWindow
     /\ CanComplete(obj, ExactProblem(obj), DefaultBounds, EmptyAssignment)) =>
        CanComplete(obj, Problem(obj, split + 1), FixedBounds(obj, split, asg),
                    EmptyAssignment)

\* the first n steps of assignment a
Prefix(a, n) ==
    [w |-> SubSeq(a.w, 1, n), y |-> SubSeq(a.y, 1, n),
     x |-> SubSeq(a.x, 1, Max(n - 1, 0)), z |-> SubSeq(a.z, 1, n)]

\* every solution the solver completes, of either builder, is reached step
\* by step through the layouts
SolutionsAreLayoutPaths ==
    Solved =>
        \A n \in 1..Len(asg.w) :
            Prefix(asg, n) \in LayoutExtensions(obj, Problem(obj, split), bounds[split + 1],
                                                Prefix(asg, n - 1))

(***************************************************************************)
(* The variables a window's objective reads                                *)
(***************************************************************************)
\* C29: for every accepted objective, every S > 1 and every D >= 0,
\* create_cpx_problem builds the windows without reading a movement
\* variable that was not created: every x[t,q,i,j] the objective of a
\* window reads is one the window defined (a coupling below the boundary
\* less one, a long arc from there on), and no KeyError on x is raised.
C29_WindowVariablesCreated ==
    (/\ pc # "init" /\ ConstructionError(cfg) = NoError
     /\ cfg.builder = "bip" /\ NumSplits(cfg) > 1
     /\ cfg.objective \in KnownObjectives("bip")) =>
        /\ error # [type |-> "KeyError", message |-> "x"]
        /\ \A k \in 0..(obj.num_splits - 2) :
               \A t \in 0..(Problem(obj, k).depth - 2) : \A i \in obj.qubits :
                   ObjectiveMoves(cfg, obj, Problem(obj, k), t, i)
                       \subseteq XNeighbors(obj, Problem(obj, k), t, i)

(***************************************************************************)
(* The objective of a window                                               *)
(***************************************************************************)
\* C30: once create_cpx_problem of BIPMappingModel has built the problems
\* of a run with S > 1, for any accepted objective, minimize() has been
\* called on every window with the expression of that objective: every
\* window has the function to minimize that the exact problem has.
C30_WindowsMinimize ==
    (/\ pc \in {"created", "solving", "returned"}
     /\ cfg.builder = "bip" /\ obj.num_splits > 1) =>
        \A k \in 0..(obj.num_splits - 2) :
            /\ problems[k + 1].built
            /\ problems[k + 1].minimized
            /\ ObjectiveOf(cfg, obj, k) = ObjectiveOf(cfg, obj, ExactIndex(obj))
====
